---- MODULE Spec2Model ----
(***************************************************************************)
(* A model of the nostr-mail synchronisation engine: the relay manager of  *)
(* app/util.py (subscriptions, publish, bounded fetch, profile             *)
(* aggregation, the dm store), the aionostr profile loader of              *)
(* app/profile.py, and the direct-message decryptors of app/util.py,       *)
(* app/conversations.py and nostrmail/utils.py.                            *)
(*                                                                         *)
(* Public keys are the integers of Keys, ordered as their hex strings are. *)
(* The private key of a user is identified with its public key.  The ECDH  *)
(* secret of two users is the set of the two keys, so that it is the same  *)
(* from both sides.  A ciphertext carries the secret it was encrypted      *)
(* under; decrypt_message raises unless it is given that secret.           *)
(***************************************************************************)
EXTENDS Integers, Sequences, FiniteSets, TLC

(***************************************************************************)
(* Bounds of the model.                                                    *)
(***************************************************************************)
\* the longest batch of events handed to a decryptor
MaxBatch == 2

Keys == {1, 2, 3}

\* EventKind.SET_METADATA, EventKind.TEXT_NOTE, EventKind.ENCRYPTED_DIRECT_MESSAGE
KindMeta == "SET_METADATA"
KindText == "TEXT_NOTE"
KindDm == "ENCRYPTED_DIRECT_MESSAGE"

(***************************************************************************)
(* Events.  tags is the event's list of tag arrays; content is             *)
(*   [key, iv, text, json]: for a direct message the secret it was         *)
(*   encrypted under ({} when the payload is corrupt), the text after      *)
(*   "?iv=" and the clear text; for metadata the metadata (text) and       *)
(*   whether json.loads accepts the content.  A ciphertext is not JSON.    *)
(* sig tells whether Event.verify() passes.                                *)
(***************************************************************************)
DmEv(id, pubkey, tags, key, iv, created_at, sig) ==
    [id |-> id, pubkey |-> pubkey, tags |-> tags, kind |-> KindDm,
     content |-> [key |-> key, iv |-> iv, text |-> id, json |-> FALSE],
     created_at |-> created_at, sig |-> sig]

MetaEv(id, pubkey, created_at, json) ==
    [id |-> id, pubkey |-> pubkey, tags |-> << >>, kind |-> KindMeta,
     content |-> [key |-> {}, iv |-> 0, text |-> id, json |-> json],
     created_at |-> created_at, sig |-> TRUE]

\* A metadata event with identity claims: one 'i' tag per claim, holding the
\* pair (platform, identity) and the proof.
MetaEvWithIdentities(id, pubkey, created_at, tags) ==
    [MetaEv(id, pubkey, created_at, TRUE) EXCEPT !.tags = tags]

\* The direct messages the decryptors are tried on.
DmEvents ==
    { DmEv(1, 1, << <<"p", 2>> >>, {1, 2}, 11, 100, TRUE),          \* 1 -> 2
      DmEv(2, 2, << <<"p", 1>> >>, {1, 2}, 12, 200, TRUE),          \* 2 -> 1
      DmEv(3, 2, << <<"p", 1>> >>, {1, 2}, 13, 100, FALSE),         \* forged signature
      DmEv(4, 2, << <<"p", 1>> >>, {}, 14, 200, TRUE),              \* corrupt payload
      DmEv(5, 2, << <<"p", 3>> >>, {2, 3}, 15, 100, TRUE),          \* 2 -> 3
      DmEv(6, 1, << >>, {1, 2}, 16, 100, TRUE),                     \* no p tag
      DmEv(7, 3, << <<"p", 1, 0>> >>, {1, 3}, 17, 200, TRUE),       \* p tag with a relay hint
      DmEv(8, 1, << <<"e", 1>>, <<"p", 2>> >>, {1, 2}, 11, 200, TRUE) \* the payload of 1, re-sent
    }

\* All sequences over S of length at most n.
SeqsUpTo(S, n) == UNION { [1..k -> S] : k \in 0..n }

(***************************************************************************)
(* Python's dict(tags): raises ValueError unless every tag array has       *)
(* exactly two elements; a later tag of the same name replaces an earlier. *)
(***************************************************************************)
DictOk(tags) == \A i \in 1..Len(tags) : Len(tags[i]) = 2

HasKey(tags, k) == \E i \in 1..Len(tags) : tags[i][1] = k

Lookup(tags, k) ==
    LET last == CHOOSE i \in 1..Len(tags) :
                    /\ tags[i][1] = k
                    /\ \A j \in 1..Len(tags) : tags[j][1] = k => j <= i
    IN  tags[last][2]

(***************************************************************************)
(* PrivateKey.decrypt_message(content, counterpart) of the local key:      *)
(* the shared secret is derived from the local private key and the         *)
(* counterpart's public key; decryption under another secret raises.       *)
(***************************************************************************)
Shared(local_key, counterpart) == {local_key, counterpart}

DecryptRaises(local_key, content, counterpart) ==
    content.key # Shared(local_key, counterpart)

\* ConvKey without the sort: the author first
ConvKeyUnsorted(from_pubkey, to_pubkey) == <<from_pubkey, to_pubkey>>

\* tuple(sorted([from_pubkey, to_pubkey]))
ConvKey(from_pubkey, to_pubkey) ==
    IF from_pubkey <= to_pubkey THEN <<from_pubkey, to_pubkey>>
    ELSE <<to_pubkey, from_pubkey>>

\* get_encryption_iv: the text after the last "?iv=", '=' stripped.
get_encryption_iv(content) == content.iv

\* What a decryptor stores as the value of 'decrypted'.
Text(t) == [tag |-> "text", of |-> t]
Dump(id) == [tag |-> "dump", of |-> id]
NoValue == [tag |-> "none", of |-> 0]


(***************************************************************************)
(* Every decryptor below also returns log, the decrypt_message calls it    *)
(* made, in order: the place of the event in the batch, the event, the     *)
(* counterpart key it passed, and whether the call returned.  log is not   *)
(* a value of the program; the rest of each result is.                     *)
(***************************************************************************)
Call(i, e, counterpart, local_key) ==
    [pos |-> i, event_id |-> e.id, counterpart |-> counterpart,
     ok |-> ~DecryptRaises(local_key, e.content, counterpart)]

(***************************************************************************)
(* ConversationsScreen.update_ui_with_dms, the body of the loop for one    *)
(* event whose tags dict() accepts: the dm dictionary and the calls made.  *)
(* has_decrypted tells whether the key 'decrypted' was stored in dm.       *)
(***************************************************************************)
ui_dm(local_key, i, e) ==
    LET has_p == HasKey(e.tags, "p")
        p == IF has_p THEN Lookup(e.tags, "p") ELSE 0
        dm == [valid |-> TRUE, created_at |-> e.created_at, event_id |-> e.id,
               author |-> e.pubkey, content |-> e.content, has_p |-> has_p, p |-> p,
               has_decrypted |-> FALSE, decrypted |-> NoValue]
        \* dm['p'] raises KeyError before any call is made
        first == IF has_p THEN <<Call(i, e, p, local_key)>> ELSE << >>
        first_ok == has_p /\ ~DecryptRaises(local_key, e.content, p)
        second == Call(i, e, e.pubkey, local_key)
    IN  IF first_ok
        THEN [dm |-> dm, log |-> first]
        ELSE IF second.ok
        THEN [dm |-> [dm EXCEPT !.has_decrypted = TRUE,
                                !.decrypted = Text(e.content.text)],
              log |-> first \o <<second>>]
        ELSE [dm |-> [dm EXCEPT !.has_decrypted = TRUE, !.decrypted = Dump(e.id)],
              log |-> first \o <<second>>]

RECURSIVE ui_loop(_, _, _, _, _)
ui_loop(local_key, dm_events, i, dms, log) ==
    IF i > Len(dm_events)
    THEN [raised |-> FALSE, dms |-> dms, log |-> log]
    ELSE IF ~DictOk(dm_events[i].tags)
    THEN [raised |-> TRUE, dms |-> dms, log |-> log]      \* ValueError, outside the try
    ELSE LET r == ui_dm(local_key, i, dm_events[i])
         IN  ui_loop(local_key, dm_events, i + 1, Append(dms, r.dm), log \o r.log)

\* ConversationsScreen.schedule_update_ui: one list item per dm, reading dm['decrypted'].
schedule_update_ui(dms) ==
    LET missing == {i \in 1..Len(dms) : ~dms[i].has_decrypted}
        upto == IF missing = {} THEN Len(dms)
                ELSE (CHOOSE i \in missing : \A j \in missing : i <= j) - 1
    IN  [raised |-> missing # {},                            \* KeyError
         items |-> [i \in 1..upto |-> dms[i].decrypted]]

(***************************************************************************)
(* ConversationsScreen.update_ui_with_dms with the private key in the      *)
(* keyring: the dms it built, what schedule_update_ui rendered of them,    *)
(* and whether an exception left the decryptor or the renderer.            *)
(***************************************************************************)
update_ui_with_dms(local_key, dm_events) ==
    LET built == ui_loop(local_key, dm_events, 1, << >>, << >>)
        shown == schedule_update_ui(built.dms)
    IN  IF built.raised
        THEN [ran |-> FALSE, raised |-> TRUE, dms |-> built.dms, items |-> << >>,
              log |-> built.log]
        ELSE [ran |-> FALSE, raised |-> shown.raised, dms |-> built.dms,
              items |-> shown.items, log |-> built.log]

(***************************************************************************)
(* decrypt_dm_events of app/util.py.  dms is the dictionary of             *)
(* dictionaries as the set of its entries, one per (conv_key, iv); a       *)
(* later event of the same conv_key and iv replaces the entry.  event_id   *)
(* names the event an entry was made from (the program keeps no id), and   *)
(* at the place of the entry in the order of the dictionary: the place in  *)
(* the batch of the event that first had this conv_key and iv.             *)
(***************************************************************************)
\* dm_counterpart without its test of the author: the tag recipient, always
dm_counterpart_tag_only(local_key, from_pubkey, to_pubkey) == to_pubkey

\* the counterpart decrypt_dm_events passes to decrypt_message
dm_counterpart(local_key, from_pubkey, to_pubkey) ==
    IF local_key = from_pubkey THEN to_pubkey ELSE from_pubkey

RECURSIVE decrypt_loop(_, _, _, _, _)
decrypt_loop(local_key, evs, i, dms, log) ==
    IF i > Len(evs)
    THEN [raised |-> FALSE, dms |-> dms, log |-> log]
    ELSE LET event == evs[i]
         IN  IF ~DictOk(event.tags) \/ ~HasKey(event.tags, "p")
             THEN [raised |-> TRUE, dms |-> {}, log |-> log]     \* ValueError, KeyError
             ELSE LET from_pubkey == event.pubkey
                      to_pubkey == Lookup(event.tags, "p")
                      conv_key == ConvKey(from_pubkey, to_pubkey)
                      call == Call(i, event,
                                   dm_counterpart(local_key, from_pubkey, to_pubkey),
                                   local_key)
                      iv == get_encryption_iv(event.content)
                      same == {d \in dms : d.conv_key = conv_key /\ d.iv = iv}
                      \* a key that is assigned again keeps its place in the dict
                      at == IF same = {} THEN i ELSE (CHOOSE d \in same : TRUE).at
                      entry == [conv_key |-> conv_key, iv |-> iv,
                                decrypted |-> Text(event.content.text),
                                time |-> event.created_at,
                                from_pubkey |-> from_pubkey, event_id |-> event.id,
                                at |-> at]
                  IN  IF ~call.ok
                      THEN [raised |-> TRUE, dms |-> {}, log |-> Append(log, call)]
                      ELSE decrypt_loop(local_key, evs, i + 1,
                               {d \in dms : ~(d.conv_key = conv_key /\ d.iv = iv)}
                                   \cup {entry},
                               Append(log, call))

decrypt_dm_events(evs, local_key) ==
    decrypt_loop(local_key, evs, 1, {}, << >>)


(***************************************************************************)
(* The relay manager, NostrRelayManager of app/util.py, its callers and    *)
(* the relays.                                                             *)
(***************************************************************************)
\* operations the caller starts
MaxOps == 2
\* event messages the relays send
MaxDeliver == 2

\* relay_list.get_url_list(), in its order
RelayOrder == <<"r1", "r2">>
Relays == {RelayOrder[i] : i \in 1..Len(RelayOrder)}

\* The events the relays hold; every relay may hold a copy of each.
RelayEvents ==
    { MetaEv(21, 1, 100, TRUE),
      MetaEvWithIdentities(22, 1, 200, << <<"i", <<"github", "alice">>, "gist">> >>),
      MetaEv(23, 1, 300, FALSE),
      DmEv(2, 2, << <<"p", 1>> >>, {1, 2}, 12, 200, TRUE),
      DmEv(3, 2, << <<"p", 1>> >>, {1, 2}, 13, 100, FALSE) }

VARIABLES
    local_key,   \* the public key of the private key in the keyring
    dm_events,   \* the batch of events handed to the decryptors
    ui,          \* what update_ui_with_dms made of dm_events
    convs,       \* what decrypt_dm_events made of dm_events
    inbox,       \* what get_dms and update_inbox of nostrmail made of dm_events
    pc,          \* where the caller is: "idle" between operations
    op,          \* the operation under way, or the last one
    ret,         \* how the last operation ended
    n_ops,       \* operations started
    conn,        \* the relay connections: "open" or "closed"
    subs,        \* subscriptions registered on the relays, with their filter
    live,        \* subscription ids whose REQ the relays have received
    next_id,     \* the next fresh subscription id
    pool,        \* message_pool.events, a queue of event messages
    sentlog,     \* every event message a relay has sent
    db,          \* the 'dm' table, in row order
    sub_id,      \* subscription_id of the operation under way
    events,      \* the local list events of get_events and of fetch_profile_data
    pub,         \* what the publishing of the operation under way did
    n_sub,       \* subscribe calls of the operation under way
    n_close,     \* close and unsubscribe calls of the operation under way
    queue,       \* the queue manager.subscribe returned (app/profile.py)
    m_live,      \* the aionostr manager's subscription is open
    keyring,     \* keyring.get_password(KEYRING_GROUP, 'priv_key')
    priv_key,    \* SettingsScreen.priv_key
    pub_key_text, \* the text of the pub_key field of the settings screen
    log_records, \* the log records written, as a set
    key_ret,     \* how the last operation that needs the local key ended
    req_authors, \* the authors of the filters sent to the relays for those
    cleartext,   \* the string handed to pad and to encrypt (docs/nip44.py)
    padded_data, \* how pad(cleartext) ended
    unpadded_data, \* how unpad of the padded data ended
    secret_key,  \* the conversation key
    definitions, \* which definition of encrypt and decrypt is bound, and the names
    encrypted_msg, \* how encrypt(secret_key, cleartext) ended
    decrypted_msg, \* how decrypt(secret_key, encrypted_msg) ended
    unpadded_len, \* a length of the padding tests
    calculated_padded_len, \* calc_padding(unpadded_len), 0 before the test
    relays,      \* RelayScreen.relays
    db_relays,   \* the entry 'relays' of the table 'relays' of the database
    error_label, \* RelayScreen.error_label, once open_edit_dialog has made it
    dialog,      \* RelayScreen.dialog
    relay_ret,   \* how the last operation of the relay screen ended
    instance,    \* NostrRelayManager._instance: 0 for None, or a place in managers
    managers,    \* the NostrRelayManager objects that were registered
    inst_ret     \* how the last get_instance or constructor call ended

vars == <<local_key, dm_events, ui, convs, inbox, pc, op, ret, n_ops, conn, subs, live,
          next_id, pool, sentlog, db, sub_id, events, pub, n_sub, n_close,
          queue, m_live, keyring, priv_key, pub_key_text, log_records, key_ret, req_authors,
          cleartext, padded_data, unpadded_data, secret_key, definitions, encrypted_msg,
          decrypted_msg, unpadded_len, calculated_padded_len,
          relays, db_relays, error_label, dialog, relay_ret, instance, managers, inst_ret>>

nip_vars == <<cleartext, padded_data, unpadded_data, secret_key, definitions,
              encrypted_msg, decrypted_msg, unpadded_len, calculated_padded_len>>

screen_vars == <<relays, error_label, dialog, relay_ret>>

single_vars == <<instance, managers, inst_ret>>

ext_vars == <<nip_vars, screen_vars, db_relays, single_vars>>

key_vars == <<keyring, priv_key, pub_key_text, log_records, key_ret, req_authors>>

app_vars == <<key_vars, ext_vars>>

dm_vars == <<dm_events, ui, convs, inbox>>
mgr_vars == <<pc, op, ret, n_ops, conn, subs, live, next_id, pool, sentlog, db,
              sub_id, events, pub, n_sub, n_close, queue, m_live>>

NotRun == [ran |-> FALSE, raised |-> FALSE, dms |-> << >>, items |-> << >>, log |-> << >>]
NotRunConvs == [ran |-> FALSE, raised |-> FALSE, dms |-> {}, log |-> << >>]
NotRunInbox == [ran |-> FALSE, raised |-> FALSE, dms |-> << >>, log |-> << >>]

NoOp == [name |-> "", kind |-> "", returns |-> "", refresh |-> FALSE]
NoPub == [calls |-> 0, sent |-> FALSE, closed_seen |-> FALSE, retries |-> 0]
Running == [status |-> "none", exc |-> "", value |-> << >>, dms |-> {}]
Returned(value) == [status |-> "returned", exc |-> "", value |-> value, dms |-> {}]
ReturnedDms(dms) == [status |-> "returned", exc |-> "", value |-> << >>, dms |-> dms]
Raised(exc) == [status |-> "raised", exc |-> exc, value |-> << >>, dms |-> {}]

(***************************************************************************)
(* The local key.  A private key is a string: the nsec strings of the      *)
(* users, and strings that from_nsec rejects (an empty field, a key        *)
(* pasted in hex).  NoKey is the None of a keyring without the entry.      *)
(***************************************************************************)
NoKey == "None"
NsecStrings == {"nsec-of-1", "nsec-of-2"}
KeyStrings == NsecStrings \cup {"", "hex-of-1"}

\* PrivateKey.from_nsec(k).public_key.hex()
PubOf(k) == IF k = "nsec-of-1" THEN 1 ELSE 2

\* a public key, or a text where a public key was expected
Pub(pk) == [is_key |-> TRUE, pub |-> pk, text |-> ""]
Placeholder(text) == [is_key |-> FALSE, pub |-> 0, text |-> text]

\* a log record: the message and the value formatted into it
Record(level, msg, arg) == [level |-> level, msg |-> msg, arg |-> arg]

\* get_nostr_pub_key: the value it returns and the records it logs
get_nostr_pub_key(priv_key_nsec) ==
    IF priv_key_nsec = NoKey
    THEN [value |-> Placeholder("no priv key provided"), logged |-> {}]
    ELSE IF priv_key_nsec \in NsecStrings
    THEN [value |-> Pub(PubOf(priv_key_nsec)), logged |-> {}]
    ELSE [value |-> Placeholder("priv key does not match nsec format"),
          logged |-> {Record("error", "strange priv key", priv_key_nsec)}]

\* `not priv_key`: None or the empty string
Missing(k) == k = NoKey \/ k = ""

NotFound == Record("error", "Private key not found in keyring.", "")

\* load_user_pub_key
load_user_pub_key(kr) ==
    IF Missing(kr)
    THEN [raised |-> TRUE, exc |-> "IOError", value |-> Placeholder(""),
          logged |-> {NotFound}]
    ELSE [raised |-> FALSE, exc |-> "", value |-> get_nostr_pub_key(kr).value,
          logged |-> get_nostr_pub_key(kr).logged]

\* load_user_priv_key: from_nsec raises for a string that is no nsec
load_user_priv_key(kr) ==
    IF Missing(kr)
    THEN [raised |-> TRUE, exc |-> "IOError", value |-> Placeholder(""),
          logged |-> {NotFound}]
    ELSE IF kr \notin NsecStrings
    THEN [raised |-> TRUE, exc |-> "from_nsec", value |-> Placeholder(""), logged |-> {}]
    ELSE [raised |-> FALSE, exc |-> "", value |-> Pub(PubOf(kr)), logged |-> {}]

NoKeyRet == [op |-> "", had_key |-> FALSE, status |-> "none", exc |-> ""]

(***************************************************************************)
(* docs/nip44.py.  A string is a sequence of code points and a bytes       *)
(* object a sequence of numbers below 256; str.encode and bytes.decode     *)
(* are UTF-8.  Long sequences are taken apart by halves, so that the       *)
(* evaluation stays shallow.                                               *)
(***************************************************************************)
MAX_PLAINTEXT_SIZE == 65536 - 128

MaxChars == 2

\* NUL, 'A', e acute (two bytes) and the euro sign (three bytes)
CodePoints == {0, 65, 233, 8364}

Repeat(c, n) == [i \in 1..n |-> c]

SmallStrings == UNION {[1..n -> CodePoints] : n \in 0..MaxChars}

\* strings about the chunk sizes of calc_padding and about the size limit
LongLengths == {31, 32, 33, 256, 257, MAX_PLAINTEXT_SIZE - 1, MAX_PLAINTEXT_SIZE}
LongStrings ==
    {Repeat(65, n) : n \in LongLengths}
        \cup {Repeat(8364, n) : n \in {11, (MAX_PLAINTEXT_SIZE - 2) \div 3,
                                       (MAX_PLAINTEXT_SIZE + 1) \div 3}}

\* the UTF-8 encoding of one code point
utf8(cp) ==
    IF cp < 128 THEN <<cp>>
    ELSE IF cp < 2048 THEN <<192 + cp \div 64, 128 + (cp % 64)>>
    ELSE IF cp < 65536
    THEN <<224 + cp \div 4096, 128 + ((cp \div 64) % 64), 128 + (cp % 64)>>
    ELSE <<240 + cp \div 262144, 128 + ((cp \div 4096) % 64),
           128 + ((cp \div 64) % 64), 128 + (cp % 64)>>

\* str.encode('utf-8')
RECURSIVE utf8_to_bytes(_)
utf8_to_bytes(s) ==
    IF Len(s) = 0 THEN << >>
    ELSE IF Len(s) = 1 THEN utf8(s[1])
    ELSE LET h == Len(s) \div 2
         IN  utf8_to_bytes(SubSeq(s, 1, h)) \o utf8_to_bytes(SubSeq(s, h + 1, Len(s)))

IsContinuation(x) == x >= 128 /\ x < 192

\* the bytes of one character, from its lead byte
Width(lead) ==
    IF lead < 128 THEN 1
    ELSE IF lead >= 192 /\ lead < 224 THEN 2
    ELSE IF lead >= 224 /\ lead < 240 THEN 3
    ELSE IF lead >= 240 /\ lead < 248 THEN 4
    ELSE 0

\* the code point of the character of b that starts at i and has w bytes
CodePointAt(b, i, w) ==
    CASE w = 1 -> b[i]
      [] w = 2 -> (b[i] - 192) * 64 + (b[i + 1] - 128)
      [] w = 3 -> (b[i] - 224) * 4096 + (b[i + 1] - 128) * 64 + (b[i + 2] - 128)
      [] OTHER -> (b[i] - 240) * 262144 + (b[i + 1] - 128) * 4096
                     + (b[i + 2] - 128) * 64 + (b[i + 3] - 128)

Undecodable == [ok |-> FALSE, value |-> << >>]

\* the decoding of a short bytes object, character by character
RECURSIVE decode_from(_, _, _)
decode_from(b, i, acc) ==
    IF i > Len(b) THEN [ok |-> TRUE, value |-> acc]
    ELSE LET w == Width(b[i])
         IN  IF w = 0 \/ i + w - 1 > Len(b) THEN Undecodable
             ELSE IF \E j \in (i + 1)..(i + w - 1) : ~IsContinuation(b[j])
             THEN Undecodable
             ELSE decode_from(b, i + w, Append(acc, CodePointAt(b, i, w)))

\* bytes.decode('utf-8'): a long object is cut where a character starts
RECURSIVE bytes_to_utf8(_)
bytes_to_utf8(b) ==
    IF Len(b) <= 8 THEN decode_from(b, 1, << >>)
    ELSE LET h == Len(b) \div 2
             starts == {j \in (h + 1)..(h + 4) : ~IsContinuation(b[j])}
         IN  IF starts = {} THEN Undecodable
             ELSE LET cut == CHOOSE j \in starts : \A k \in starts : j <= k
                      left == bytes_to_utf8(SubSeq(b, 1, cut - 1))
                      right == bytes_to_utf8(SubSeq(b, cut, Len(b)))
                  IN  IF left.ok /\ right.ok
                      THEN [ok |-> TRUE, value |-> left.value \o right.value]
                      ELSE Undecodable

\* int.bit_length
RECURSIVE bit_length(_)
bit_length(n) == IF n = 0 THEN 0 ELSE 1 + bit_length(n \div 2)

Max(a, b) == IF a >= b THEN a ELSE b
Min(a, b) == IF a <= b THEN a ELSE b

\* calc_padding with the padded length rounded down to the chunk
calc_padding_floor(length) ==
    IF length <= 32 THEN 32
    ELSE LET next_power == 2 ^ bit_length(length - 1)
             chunk == Max(32, next_power \div 8)
         IN  chunk * (length \div chunk)

calc_padding(length) ==
    IF length <= 32 THEN 32
    ELSE LET next_power == 2 ^ bit_length(length - 1)
             chunk == Max(32, next_power \div 8)
         IN  chunk * ((length + chunk - 1) \div chunk)

\* int.to_bytes(2, 'big') and int.from_bytes(.., 'big')
to_bytes(n) == <<n \div 256, n % 256>>
RECURSIVE from_bytes(_)
from_bytes(b) ==
    IF Len(b) = 0 THEN 0 ELSE 256 * from_bytes(SubSeq(b, 1, Len(b) - 1)) + b[Len(b)]

NotCalled == [ran |-> FALSE, raised |-> FALSE, exc |-> "", length |-> 0, value |-> << >>]
Raises(exc, length) ==
    [ran |-> TRUE, raised |-> TRUE, exc |-> exc, length |-> length, value |-> << >>]
Returns(length, value) ==
    [ran |-> TRUE, raised |-> FALSE, exc |-> "", length |-> length, value |-> value]

\* pad; length is the local of that name
pad(unpadded) ==
    LET unpadded_bytes == utf8_to_bytes(unpadded)
        length == Len(unpadded_bytes)
    IN  IF length = 0 \/ length >= MAX_PLAINTEXT_SIZE
        THEN Raises("ValueError", length)
        ELSE Returns(length, to_bytes(length) \o unpadded_bytes
                                  \o Repeat(0, calc_padding(length) - length))

\* padded[from:to] of Python, from counted from 0
Slice(b, from, to) == SubSeq(b, from + 1, Min(to, Len(b)))

\* unpad
unpad(padded) ==
    LET length == from_bytes(Slice(padded, 0, 2))
        unpadded == Slice(padded, 2, 2 + length)
    IN  IF Len(unpadded) # length \/ Len(padded) # 2 + calc_padding(length)
        THEN Raises("ValueError", length)
        ELSE IF ~bytes_to_utf8(unpadded).ok THEN Raises("UnicodeDecodeError", length)
        ELSE Returns(length, bytes_to_utf8(unpadded).value)

(***************************************************************************)
(* The cipher.  Key material is named by where it comes from: the bytes    *)
(* from..to of the output of HKDF for a master key and a salt; the master  *)
(* key itself has no salt.  ChaCha20 under a key and a nonce gives back    *)
(* the data it encrypted under the same key and nonce, and noise under     *)
(* any other; an HMAC names its key and what it authenticates.             *)
(***************************************************************************)
ConvKeys == {"key-a", "key-b"}
Salts == {"salt-a", "salt-b"}

Material(master, salt, from, to) ==
    [master |-> master, salt |-> salt, from |-> from, to |-> to]
Master(key) == Material(key, "", 0, 32)
Size(m) == m.to - m.from

\* keys[from:to] of the HKDF output of key_len bytes
HKDF(master, key_len, salt, from, to) == Material(master, salt, from, Min(to, key_len))

\* ChaCha20.new accepts a nonce of 8, 12 or 24 bytes
NonceSizes == {8, 12, 24}

Noise == <<255, 255>>

cipher_encrypt(key, nonce, data) == [key |-> key, nonce |-> nonce, data |-> data]
cipher_decrypt(key, nonce, ciphertext) ==
    IF ciphertext.key = key /\ ciphertext.nonce = nonce THEN ciphertext.data ELSE Noise

HMAC(key, ciphertext) == [key |-> key, over |-> ciphertext]

NoPayload ==
    [version |-> 0, salt |-> "", ciphertext |-> cipher_encrypt(Master(""), Master(""), << >>),
     mac |-> HMAC(Master(""), cipher_encrypt(Master(""), Master(""), << >>))]

\* the first definition of encrypt: HKDF of 76 bytes, the cipher keyed with
\* the key itself
encrypt_first(key, plaintext, salt) ==
    LET nonce == HKDF(key, 76, salt, 32, 44)
        auth_key == HKDF(key, 76, salt, 44, 76)
        padded_plaintext == pad(plaintext)
        ciphertext == cipher_encrypt(Master(key), nonce, padded_plaintext.value)
    IN  IF padded_plaintext.raised THEN Raises("ValueError", 0) @@ [payload |-> NoPayload]
        ELSE Returns(0, << >>) @@
             [payload |-> [version |-> 2, salt |-> salt, ciphertext |-> ciphertext,
                           mac |-> HMAC(auth_key, ciphertext)]]

\* the first definition of decrypt
decrypt_first(key, b64_ciphertext) ==
    LET data == b64_ciphertext.payload
        nonce == HKDF(key, 76, data.salt, 32, 44)
        auth_key == HKDF(key, 76, data.salt, 44, 76)
    IN  IF data.version # 2 THEN Raises("ValueError", 0)
        ELSE IF HMAC(auth_key, data.ciphertext) # data.mac THEN Raises("ValueError", 0)
        ELSE unpad(cipher_decrypt(Master(key), nonce, data.ciphertext))

\* the second definition of encrypt, the one the module ends with.  names
\* tells whether HKDF, SHA256, HMAC and get_random_bytes of pycryptodome
\* are bound where it is called: the module does not import them before.
encrypt(conversation_key, plaintext, salt, names) ==
    LET encryption_key == HKDF(conversation_key, 64, salt, 0, 32)
        nonce == HKDF(conversation_key, 64, salt, 32, 44)
        padded_plaintext == pad(plaintext)
        ciphertext == cipher_encrypt(encryption_key, nonce, padded_plaintext.value)
    IN  IF ~names THEN Raises("NameError", 0) @@ [payload |-> NoPayload]
        ELSE IF padded_plaintext.raised
        THEN Raises("ValueError", 0) @@ [payload |-> NoPayload]
        ELSE Returns(0, << >>) @@
             [payload |-> [version |-> 2, salt |-> salt, ciphertext |-> ciphertext,
                           mac |-> HMAC(HKDF(conversation_key, 64, salt, 32, 64),
                                        ciphertext)]]

\* the second definition of decrypt: the nonce is keys[32:], 32 bytes
decrypt(conversation_key, b64_ciphertext, names) ==
    LET decoded == b64_ciphertext.payload
        encryption_key == HKDF(conversation_key, 64, decoded.salt, 0, 32)
        nonce == HKDF(conversation_key, 64, decoded.salt, 32, 64)
    IN  IF decoded.version # 2 THEN Raises("ValueError", 0)
        ELSE IF ~names THEN Raises("NameError", 0)
        ELSE IF Size(nonce) \notin NonceSizes THEN Raises("ValueError", 0)
        ELSE IF HMAC(HKDF(conversation_key, 64, decoded.salt, 32, 64), decoded.ciphertext)
                    # decoded.mac
        THEN Raises("ValueError", 0)
        ELSE unpad(cipher_decrypt(encryption_key, nonce, decoded.ciphertext))

NotEncrypted == NotCalled @@ [payload |-> NoPayload]

NipInit ==
    /\ padded_data = NotCalled /\ unpadded_data = NotCalled
    /\ encrypted_msg = NotEncrypted /\ decrypted_msg = NotCalled
    /\ calculated_padded_len = 0

\* outside the specification of nip44.py nothing of it is called
NipIdle ==
    /\ cleartext = << >> /\ secret_key = "key-a" /\ definitions = [which |-> 1, names |-> TRUE]
    /\ unpadded_len = 0
    /\ NipInit

(***************************************************************************)
(* app/relays.py and the singleton of app/util.py.  A URL is what          *)
(* is_valid_relay_url looks at: how it starts, and whether it ends with a  *)
(* dot.  Two of the default relays stand for the four.                     *)
(***************************************************************************)
MaxRelays == 3

Url(start, host, dot) == [start |-> start, host |-> host, dot |-> dot]

DEFAULT_RELAYS ==
    <<Url("wss://", "nostr-pub.wellorder.net", FALSE), Url("wss://", "relay.damus.io", FALSE)>>

\* what the user types into the text field of a dialog
TypedUrls ==
    {Url("wss://", "new.example.com", FALSE), Url("wss://", "new.example.com", TRUE),
     Url("ws://", "new.example.com", FALSE)}

is_valid_relay_url(url) == url.start = "wss://" /\ ~url.dot

Elems(seq) == {seq[i] : i \in 1..Len(seq)}

\* list.index
IndexOf(seq, x) == CHOOSE i \in 1..Len(seq) : seq[i] = x /\ \A j \in 1..(i - 1) : seq[j] # x

\* list.remove
Remove(seq, x) ==
    LET i == IndexOf(seq, x) IN SubSeq(seq, 1, i - 1) \o SubSeq(seq, i + 1, Len(seq))

Saved(list) == [set |-> TRUE, value |-> list]
NotSaved == [set |-> FALSE, value |-> << >>]

NoLabel == [exists |-> FALSE, text |-> ""]
NoDialog == [kind |-> "none", open |-> FALSE, url |-> Url("", "", FALSE)]
\* how an operation of the screen ended; changed tells whether it left
\* RelayScreen.relays or the stored list other than it found them
ScreenRet(name, valid, raised, changed) ==
    [op |-> name, valid |-> valid, raised |-> raised, changed |-> changed]
NoScreenRet == ScreenRet("", TRUE, FALSE, FALSE)

\* load_default_relays: the list after the loop
RECURSIVE load_default_relays(_, _)
load_default_relays(list, i) ==
    IF i > Len(DEFAULT_RELAYS) THEN list
    ELSE IF DEFAULT_RELAYS[i] \in Elems(list) THEN load_default_relays(list, i + 1)
    ELSE load_default_relays(Append(list, DEFAULT_RELAYS[i]), i + 1)

\* load_relays_from_db
load_relays_from_db == IF db_relays.set THEN db_relays.value ELSE DEFAULT_RELAYS

\* what can go wrong in init_manager: the database cannot be read, or
\* add_relay raises for the last relay of the list
InitFaults == {"none", "load", "add_relay"}

\* the manager init_manager leaves behind
init_manager(fault) ==
    LET loaded == load_relays_from_db
    IN  CASE fault = "load" -> [relays |-> << >>, ready |-> FALSE]
          [] fault = "add_relay" /\ Len(loaded) > 0 ->
                [relays |-> SubSeq(loaded, 1, Len(loaded) - 1), ready |-> FALSE]
          [] OTHER -> [relays |-> loaded, ready |-> TRUE]

InstRet(call, status, obj, had_instance) ==
    [call |-> call, status |-> status, obj |-> obj, had_instance |-> had_instance]
NoInstRet == InstRet("", "none", 0, FALSE)

ScreenIdle ==
    /\ relays = << >> /\ error_label = NoLabel /\ dialog = NoDialog
    /\ relay_ret = NoScreenRet

\* the manager the rest of the model works with is registered
SingleIdle ==
    /\ managers = <<[relays |-> DEFAULT_RELAYS, ready |-> TRUE]>> /\ instance = 1
    /\ inst_ret = NoInstRet

ExtInit == NipIdle /\ ScreenIdle /\ db_relays = NotSaved /\ SingleIdle

KeyIdle ==
    /\ keyring = "nsec-of-1" /\ priv_key = "" /\ pub_key_text = Placeholder("")
    /\ log_records = {} /\ key_ret = NoKeyRet /\ req_authors = {}

AppInit == KeyIdle /\ ExtInit

MgrInit ==
    /\ pc = "idle" /\ op = NoOp /\ ret = Running /\ n_ops = 0
    /\ conn \in {"open", "closed"}
    /\ subs = {} /\ live = {} /\ next_id = 1
    /\ pool = << >> /\ sentlog = {} /\ db = << >>
    /\ sub_id = 0 /\ events = << >> /\ pub = NoPub /\ n_sub = 0 /\ n_close = 0
    /\ queue = << >> /\ m_live = FALSE

Init ==
    /\ local_key = 1
    /\ dm_events = << >> /\ ui = NotRun /\ convs = NotRunConvs /\ inbox = NotRunInbox
    /\ MgrInit
    /\ AppInit

(***************************************************************************)
(* The relays.  A relay answers a subscription whose REQ it has received,  *)
(* over an open connection, with events that match the filter, each once;  *)
(* a filter with limit=1 gets one event.  The message pool keeps an event  *)
(* message unless it has seen the same event from the same relay.          *)
(***************************************************************************)
HasPRef(e, pk) == \E i \in 1..Len(e.tags) : e.tags[i][1] = "p" /\ e.tags[i][2] = pk

Matches(kind, pk, e) ==
    CASE kind = "text" -> e.kind = KindText /\ e.pubkey = pk
      [] kind \in {"meta", "profile"} -> e.kind = KindMeta /\ e.pubkey = pk
      [] kind = "dm" -> e.kind = KindDm /\ (e.pubkey = pk \/ HasPRef(e, pk))
      [] OTHER -> FALSE

unique_objects == {<<m.id, m.url>> : m \in sentlog}

pool_add(e, sid, url) ==
    IF <<e.id, url>> \in unique_objects THEN pool
    ELSE Append(pool, [event |-> e, subscription_id |-> sid, url |-> url])

RelaySends ==
    \E s \in subs, url \in Relays, e \in RelayEvents :
        /\ s.id \in live /\ conn = "open"
        /\ Matches(s.kind, local_key, e)
        /\ Cardinality(sentlog) < MaxDeliver
        /\ [id |-> e.id, sub |-> s.id, url |-> url] \notin sentlog
        /\ s.kind = "profile" => ~\E m \in sentlog : m.sub = s.id /\ m.url = url
        /\ sentlog' = sentlog \cup {[id |-> e.id, sub |-> s.id, url |-> url]}
        /\ pool' = pool_add(e, s.id, url)
        /\ UNCHANGED <<app_vars, local_key, dm_vars, pc, op, ret, n_ops, conn, subs, live,
                       next_id, db, sub_id, events, pub, n_sub, n_close, queue, m_live>>

\* The connections to the relays are lost.
ConnectionLost ==
    /\ conn = "open"
    /\ conn' = "closed"
    /\ UNCHANGED <<app_vars, local_key, dm_vars, pc, op, ret, n_ops, subs, live, next_id, pool,
                   sentlog, db, sub_id, events, pub, n_sub, n_close, queue, m_live>>


(***************************************************************************)
(* NostrRelayManager.publish_message: the transport raises                 *)
(* WebSocketConnectionClosedException when the connection is closed, and   *)
(* may raise another exception (fault).  After a closed connection the     *)
(* method calls run_sync, which reconnects (rs = "ok") or raises the same  *)
(* exception again.  The result: whether the message was handed to the     *)
(* transport, whether the exception left the method, whether the           *)
(* connection was found closed, and the connection afterwards.             *)
(***************************************************************************)
Faults == {"none", "other"}
Outcomes == {"ok", "closed"}

publish_message(connection, fault, rs) ==
    IF fault # "none"
    THEN [sent |-> FALSE, raised |-> FALSE, closed_seen |-> FALSE, conn |-> connection]
    ELSE IF connection = "closed"
    THEN [sent |-> FALSE, raised |-> rs = "closed", closed_seen |-> TRUE,
          conn |-> IF rs = "ok" THEN "open" ELSE "closed"]
    ELSE [sent |-> TRUE, raised |-> FALSE, closed_seen |-> FALSE, conn |-> connection]

\* RelayManager.publish_event of the library: no handler of the manager around it.
publish_event(connection) ==
    [sent |-> connection = "open", raised |-> connection = "closed",
     closed_seen |-> connection = "closed", conn |-> connection]

\* pub after one more call with result r; retry tells a reopen-and-resend round.
Published(r, retry) ==
    [calls |-> pub.calls + 1, sent |-> pub.sent \/ r.sent,
     closed_seen |-> pub.closed_seen \/ r.closed_seen,
     retries |-> pub.retries + (IF retry THEN 1 ELSE 0)]

\* What every operation resets when it starts.
Start(name, kind, returns, refresh) ==
    /\ pc = "idle" /\ n_ops < MaxOps
    /\ n_ops' = n_ops + 1
    /\ op' = [name |-> name, kind |-> kind, returns |-> returns, refresh |-> refresh]
    /\ sub_id' = 0 /\ events' = << >> /\ n_sub' = 0 /\ n_close' = 0

\* close_subscription_on_all_relays(subscription_id)
close_subscription ==
    /\ subs' = {s \in subs : s.id # sub_id}
    /\ live' = live \ {sub_id}
    /\ n_close' = n_close + 1

\* the ids of the subscriptions registered on the relays
SubIds == {s.id : s \in subs}

(***************************************************************************)
(* add_subscription called by the application with the id of a             *)
(* subscription that was closed: the subscription is registered again      *)
(* under that id, and the call returns.                                    *)
(***************************************************************************)
AddSubscription ==
    /\ pc = "idle" /\ n_ops < MaxOps
    /\ \E id \in 1..(next_id - 1) :
          /\ id \notin SubIds
          /\ sub_id' = id
          /\ subs' = subs \cup {[id |-> id, kind |-> "text"]}
    /\ n_ops' = n_ops + 1
    /\ op' = [name |-> "add_subscription", kind |-> "text", returns |-> "",
              refresh |-> FALSE]
    /\ events' = << >> /\ n_sub' = 1 /\ n_close' = 0
    /\ pub' = NoPub /\ ret' = Returned(<< >>)
    /\ pc' = "idle"
    /\ UNCHANGED <<app_vars, local_key, dm_vars, conn, live, next_id, pool, sentlog, db,
                   queue, m_live>>

(***************************************************************************)
(* __del__, when the manager is collected: it calls                        *)
(* close_subscription_on_all_relays without the subscription id the method *)
(* takes (it is given one in temporary_subscription), so the call raises   *)
(* TypeError, no close is issued and close_all_relay_connections is not    *)
(* reached.  Nothing is called on the manager afterwards.                  *)
(***************************************************************************)
Del ==
    /\ pc = "idle"
    /\ op' = [name |-> "__del__", kind |-> "", returns |-> "", refresh |-> FALSE]
    /\ ret' = Raised("TypeError")
    /\ pc' = "deleted"
    /\ UNCHANGED <<app_vars, local_key, dm_vars, n_ops, conn, subs, live, next_id, pool, sentlog,
                   db, sub_id, events, pub, n_sub, n_close, queue, m_live>>

(***************************************************************************)
(* publish_message and wait_and_publish_message called by the application. *)
(***************************************************************************)
PublishMessage ==
    /\ Start("publish_message", "", "", FALSE)
    /\ \E fault \in Faults, rs \in Outcomes :
          LET r == publish_message(conn, fault, rs)
          IN  /\ conn' = r.conn
              /\ pub' = [calls |-> 1, sent |-> r.sent, closed_seen |-> r.closed_seen,
                         retries |-> 0]
              /\ ret' = IF r.raised THEN Raised("WebSocketConnectionClosedException")
                        ELSE Returned(<< >>)
    /\ pc' = "idle"
    /\ UNCHANGED <<app_vars, local_key, dm_vars, subs, live, next_id, pool, sentlog, db,
                   queue, m_live>>

\* the exception that leaves publish_message is logged and not raised again
WaitAndPublishMessage ==
    /\ Start("wait_and_publish_message", "", "", FALSE)
    /\ \E fault \in Faults, rs \in Outcomes :
          LET r == publish_message(conn, fault, rs)
          IN  /\ conn' = r.conn
              /\ pub' = [calls |-> 1, sent |-> r.sent, closed_seen |-> r.closed_seen,
                         retries |-> 0]
    /\ ret' = Returned(<< >>)
    /\ pc' = "idle"
    /\ UNCHANGED <<app_vars, local_key, dm_vars, subs, live, next_id, pool, sentlog, db,
                   queue, m_live>>

(***************************************************************************)
(* publish_profile: connects the relays that are not connected, publishes  *)
(* the signed event, and on a closed connection reopens and publishes      *)
(* once more.                                                              *)
(***************************************************************************)
PublishProfile ==
    /\ Start("publish_profile", "", "", FALSE)
    /\ \E c \in {"open", "closed"} : conn' = IF conn = "open" THEN conn ELSE c
    /\ pub' = NoPub /\ ret' = Running
    /\ pc' = "pp_publish"
    /\ UNCHANGED <<app_vars, local_key, dm_vars, subs, live, next_id, pool, sentlog, db,
                   queue, m_live>>

PublishProfileEvent ==
    /\ pc = "pp_publish"
    /\ LET r == publish_event(conn)
       IN  /\ pub' = Published(r, FALSE)
           /\ pc' = IF r.raised THEN "pp_retry" ELSE "pp_sync"
    /\ UNCHANGED <<app_vars, local_key, dm_vars, op, ret, n_ops, conn, subs, live, next_id, pool,
                   sentlog, db, sub_id, events, n_sub, n_close, queue, m_live>>

PublishProfileRetry ==
    /\ pc = "pp_retry"
    /\ \E c \in {"open", "closed"} :
          LET r == publish_event(c)
          IN  /\ conn' = c
              /\ pub' = Published(r, TRUE)
              /\ IF r.raised
                 THEN pc' = "idle" /\ ret' = Raised("WebSocketConnectionClosedException")
                 ELSE pc' = "pp_sync" /\ ret' = ret
    /\ UNCHANGED <<app_vars, local_key, dm_vars, op, n_ops, subs, live, next_id, pool,
                   sentlog, db, sub_id, events, n_sub, n_close, queue, m_live>>

\* run_sync, then the signature is returned
PublishProfileSync ==
    /\ pc = "pp_sync"
    /\ \E rs \in Outcomes :
          /\ conn' = IF rs = "ok" THEN "open" ELSE "closed"
          /\ ret' = IF rs = "ok" THEN Returned(<< >>)
                    ELSE Raised("WebSocketConnectionClosedException")
    /\ pc' = "idle"
    /\ UNCHANGED <<app_vars, local_key, dm_vars, op, n_ops, subs, live, next_id, pool,
                   sentlog, db, sub_id, events, pub, n_sub, n_close, queue, m_live>>

(***************************************************************************)
(* get_events, and load_profile_data of the manager, which calls it with   *)
(* kind 'meta' and returns the first element of its result.                *)
(***************************************************************************)
GetEventsKinds == {"text", "meta", "dm", "zap"}
ReturnsOptions == {"content", "event", "id"}

\* get_events with the subscription registered before the kind is looked at
get_events_subscribing_first(name, kind, returns) ==
    /\ Start(name, kind, returns, FALSE)
    /\ pub' = NoPub
    /\ IF kind \notin {"text", "meta", "dm"}
       THEN /\ pc' = "idle" /\ ret' = Raised("NotImplementedError")
            /\ subs' = subs \cup {[id |-> next_id, kind |-> kind]}
       ELSE /\ pc' = "ge_subscribe" /\ ret' = Running
            /\ UNCHANGED subs
    /\ UNCHANGED <<app_vars, local_key, dm_vars, conn, live, next_id, pool, sentlog, db,
                   queue, m_live>>

get_events_start(name, kind, returns) ==
    /\ Start(name, kind, returns, FALSE)
    /\ pub' = NoPub
    /\ IF kind \notin {"text", "meta", "dm"}
       THEN pc' = "idle" /\ ret' = Raised("NotImplementedError")
       ELSE pc' = "ge_subscribe" /\ ret' = Running
    /\ UNCHANGED <<app_vars, local_key, dm_vars, conn, subs, live, next_id, pool, sentlog, db,
                   queue, m_live>>

GetEvents ==
    \E kind \in GetEventsKinds, returns \in ReturnsOptions :
        get_events_start("get_events", kind, returns)

LoadProfileData == get_events_start("load_profile_data", "meta", "content")

\* temporary_subscription, up to the yield
TemporarySubscription ==
    /\ pc = "ge_subscribe"
    /\ sub_id' = next_id /\ next_id' = next_id + 1
    /\ subs' = subs \cup {[id |-> next_id, kind |-> op.kind]}
    /\ n_sub' = n_sub + 1
    /\ pc' = "ge_publish"
    /\ UNCHANGED <<app_vars, local_key, dm_vars, op, ret, n_ops, conn, live, pool, sentlog, db,
                   events, pub, n_close, queue, m_live>>

\* the REQ message is published
GetEventsPublish ==
    /\ pc = "ge_publish"
    /\ \E fault \in Faults, rs \in Outcomes :
          LET r == publish_message(conn, fault, rs)
          IN  /\ conn' = r.conn
              /\ pub' = Published(r, FALSE)
              /\ live' = IF r.sent THEN live \cup {sub_id} ELSE live
              /\ pc' = IF r.raised THEN "ge_retry" ELSE "ge_sleep"
    /\ UNCHANGED <<app_vars, local_key, dm_vars, op, ret, n_ops, subs, next_id, pool, sentlog, db,
                   sub_id, events, n_sub, n_close, queue, m_live>>

\* the handler of get_events: open_connections, then publish_message once more;
\* an exception of the second call leaves the with block, which closes
GetEventsRetry ==
    /\ pc = "ge_retry"
    /\ \E c \in {"open", "closed"}, fault \in Faults, rs \in Outcomes :
          LET r == publish_message(c, fault, rs)
          IN  /\ conn' = r.conn
              /\ pub' = Published(r, TRUE)
              /\ IF r.raised
                 THEN /\ close_subscription
                      /\ pc' = "idle"
                      /\ ret' = Raised("WebSocketConnectionClosedException")
                 ELSE /\ live' = IF r.sent THEN live \cup {sub_id} ELSE live
                      /\ pc' = "ge_sleep"
                      /\ UNCHANGED <<subs, n_close, ret>>
    /\ UNCHANGED <<app_vars, local_key, dm_vars, op, n_ops, next_id, pool, sentlog, db,
                   sub_id, events, n_sub, queue, m_live>>

\* time.sleep(1)
GetEventsSleep ==
    /\ pc = "ge_sleep"
    /\ pc' = "ge_drain"
    /\ UNCHANGED <<app_vars, local_key, dm_vars, op, ret, n_ops, conn, subs, live, next_id, pool,
                   sentlog, db, sub_id, events, pub, n_sub, n_close, queue, m_live>>

\* one turn of the while loop
GetEventsLoop ==
    /\ pc = "ge_drain" /\ pool # << >>
    /\ pool' = Tail(pool)
    /\ LET event_msg == Head(pool)
       IN  IF op.returns \notin {"content", "event"}
           THEN /\ close_subscription
                /\ pc' = "idle" /\ ret' = Raised("NotImplementedError")
                /\ UNCHANGED events
           ELSE IF op.returns = "content" /\ op.kind = "meta"
                   /\ ~event_msg.event.content.json
           THEN /\ close_subscription
                /\ pc' = "idle" /\ ret' = Raised("JSONDecodeError")
                /\ UNCHANGED events
           ELSE /\ events' = Append(events, event_msg.event)
                /\ UNCHANGED <<pc, ret, subs, live, n_close>>
    /\ UNCHANGED <<app_vars, local_key, dm_vars, op, n_ops, conn, next_id, sentlog, db,
                   sub_id, pub, n_sub, queue, m_live>>

\* the pool is empty: the with block is left and the subscription closed
GetEventsReturn ==
    /\ pc = "ge_drain" /\ pool = << >>
    /\ close_subscription
    /\ ret' = IF op.name = "load_profile_data"
              THEN Returned(IF Len(events) > 0 THEN <<events[1]>> ELSE << >>)
              ELSE Returned(events)
    /\ pc' = "idle"
    /\ UNCHANGED <<app_vars, local_key, dm_vars, op, n_ops, conn, next_id, pool, sentlog, db,
                   sub_id, events, pub, n_sub, queue, m_live>>


(***************************************************************************)
(* fetch_profile_data.  The aggregation of kind 'profile': for every relay *)
(* of the list, in its order, the first event message of that relay is     *)
(* parsed; relays without events and relays whose event does not parse     *)
(* are skipped; the candidates are sorted by timestamp and the last one    *)
(* is the result.  Event.date_time() is taken to be increasing in          *)
(* created_at.                                                             *)
(***************************************************************************)
\* EventMessageStore.get_events_by_url
get_events_by_url(msgs, url) ==
    LET idx == {i \in 1..Len(msgs) : msgs[i].url = url}
        RECURSIVE pick(_)
        pick(i) == IF i > Len(msgs) THEN << >>
                   ELSE IF i \in idx THEN <<msgs[i]>> \o pick(i + 1)
                   ELSE pick(i + 1)
    IN  pick(1)

RECURSIVE events_by_relay(_, _)
events_by_relay(msgs, i) ==
    IF i > Len(RelayOrder) THEN << >>
    ELSE LET url == RelayOrder[i]
             event_list == get_events_by_url(msgs, url)
         IN  IF Len(event_list) = 0 \/ ~event_list[1].event.content.json
             THEN events_by_relay(msgs, i + 1)
             ELSE <<[url |-> url, timestamp |-> event_list[1].event.created_at,
                     event |-> event_list[1].event]>>
                  \o events_by_relay(msgs, i + 1)

\* sorted(items, key=timestamp): stable
RECURSIVE insert_sorted(_, _)
insert_sorted(sorted, x) ==
    IF sorted = << >> THEN <<x>>
    ELSE IF sorted[Len(sorted)].timestamp <= x.timestamp THEN Append(sorted, x)
    ELSE Append(insert_sorted(SubSeq(sorted, 1, Len(sorted) - 1), x), sorted[Len(sorted)])

RECURSIVE sorted_by_timestamp(_)
sorted_by_timestamp(items) ==
    IF items = << >> THEN << >>
    ELSE insert_sorted(sorted_by_timestamp(SubSeq(items, 1, Len(items) - 1)),
                       items[Len(items)])

\* metadata['identities'] of Metadata.from_event(event).metadata_to_dict():
\* the identity claims of the event
identities(event) ==
    LET claims == SelectSeq(event.tags, LAMBDA t : t[1] = "i")
    IN  [k \in 1..Len(claims) |->
            [claim_type |-> claims[k][2][1], identity |-> claims[k][2][2],
             proof |-> claims[k][3]]]

\* the dictionary result that fetch_profile_data builds of the sorted
\* candidates; the metadata dictionary is the event it was parsed from
profile_result(relay_list_sorted) ==
    LET latest == relay_list_sorted[Len(relay_list_sorted)]
    IN  [latest_metadata_url |-> latest.url,
         latest_metadata |-> latest.event,
         identities_info |-> identities(latest.event)]

\* latest_metadata with the identity claims taken out of the metadata
latest_metadata_unclaimed(msgs) ==
    LET relay_list_sorted == sorted_by_timestamp(events_by_relay(msgs, 1))
    IN  IF relay_list_sorted = << >> THEN Raised("IndexError")
        ELSE Returned(<<[profile_result(relay_list_sorted).latest_metadata
                           EXCEPT !.tags = << >>]>>)

\* the result of fetch_profile_data(kind='profile') for the drained messages:
\* profile_data = result['latest_metadata']
latest_metadata(msgs) ==
    LET relay_list_sorted == sorted_by_timestamp(events_by_relay(msgs, 1))
    IN  IF relay_list_sorted = << >> THEN Raised("IndexError")
        ELSE Returned(<<profile_result(relay_list_sorted).latest_metadata>>)

\* save_events_to_db as plain inserts: the rows of evs added, none replaced
save_events_appending(table, evs) == table \o evs

\* save_events_to_db as a rewrite of the table: the rows of evs, no other
save_events_rewriting(table, evs) == evs

RECURSIVE save_events_to_db(_, _)
\* save_event_to_db for every event of evs: db[id] = event, the row moved to the end
save_events_to_db(table, evs) ==
    IF evs = << >> THEN table
    ELSE LET kept == {i \in 1..Len(table) : table[i].id # evs[1].id}
             RECURSIVE rows(_)
             rows(i) == IF i > Len(table) THEN << >>
                        ELSE IF i \in kept THEN <<table[i]>> \o rows(i + 1)
                        ELSE rows(i + 1)
         IN  save_events_to_db(Append(rows(1), evs[1]), Tail(evs))

FetchKinds == {"profile", "dm"}

FetchProfileData ==
    /\ \E kind \in FetchKinds : Start("fetch_profile_data", kind, "event", FALSE)
    /\ pub' = NoPub /\ ret' = Running
    /\ pc' = "fp_subscribe"
    /\ UNCHANGED <<app_vars, local_key, dm_vars, conn, subs, live, next_id, pool, sentlog, db,
                   queue, m_live>>

\* get_dms: without refresh the stored events are decrypted at once
GetDms ==
    /\ \E refresh \in BOOLEAN : Start("get_dms", "dm", "event", refresh)
    /\ pub' = NoPub
    /\ IF op'.refresh
       THEN pc' = "fp_subscribe" /\ ret' = Running
       ELSE LET r == decrypt_dm_events(db, local_key)
            IN  /\ pc' = "idle"
                /\ ret' = IF r.raised THEN Raised("DecryptError") ELSE ReturnedDms(r.dms)
    /\ UNCHANGED <<app_vars, local_key, dm_vars, conn, subs, live, next_id, pool, sentlog, db,
                   queue, m_live>>

\* add_subscription_on_all_relays and the start of run_sync: the REQ goes out
FetchSubscribe ==
    /\ pc = "fp_subscribe"
    /\ sub_id' = next_id /\ next_id' = next_id + 1
    /\ subs' = subs \cup {[id |-> next_id, kind |-> op.kind]}
    /\ live' = live \cup {next_id}
    /\ conn' = "open"
    /\ n_sub' = n_sub + 1
    /\ pc' = "fp_sync"
    /\ UNCHANGED <<app_vars, local_key, dm_vars, op, ret, n_ops, pool, sentlog, db,
                   events, pub, n_close, queue, m_live>>

\* run_sync returns; get_all_events empties the pool; the result is computed
FetchCollect ==
    /\ pc = "fp_sync"
    /\ pool' = << >>
    /\ LET fetched == [i \in 1..Len(pool) |-> pool[i].event]
       IN  IF op.name = "get_dms"
           THEN LET r == decrypt_dm_events(db \o fetched, local_key)
                IN  /\ db' = save_events_to_db(db, fetched)
                    /\ ret' = IF r.raised THEN Raised("DecryptError")
                              ELSE ReturnedDms(r.dms)
           ELSE /\ db' = db
                /\ ret' = IF op.kind = "dm" THEN Returned(fetched)
                          ELSE latest_metadata(pool)
    /\ events' = pool        \* events.add_event(event_messages)
    /\ pc' = "idle"
    /\ UNCHANGED <<app_vars, local_key, dm_vars, op, n_ops, conn, subs, live, next_id, sentlog,
                   sub_id, pub, n_sub, n_close, queue, m_live>>

(***************************************************************************)
(* load_profile_data of app/profile.py: a manager of its own, one          *)
(* subscription, one queue.get() without a timeout, and the unsubscribe    *)
(* in the finally block.                                                   *)
(***************************************************************************)
ProfileLoadProfileData ==
    /\ Start("profile.load_profile_data", "meta", "event", FALSE)
    /\ pub' = NoPub /\ ret' = Running
    /\ queue' = << >> /\ m_live' = FALSE
    /\ pc' = "lp_subscribe"
    /\ UNCHANGED <<app_vars, local_key, dm_vars, conn, subs, live, next_id, pool, sentlog, db>>

\* manager.subscribe returns the queue, or raises: the handler logs, the
\* finally block unsubscribes, and None is returned
ProfileSubscribe ==
    /\ pc = "lp_subscribe"
    /\ \E ok \in BOOLEAN :
          IF ok
          THEN /\ m_live' = TRUE /\ n_sub' = n_sub + 1
               /\ pc' = "lp_get"
               /\ UNCHANGED <<ret, n_close>>
          ELSE /\ n_close' = n_close + 1
               /\ pc' = "idle" /\ ret' = Returned(<< >>)
               /\ UNCHANGED <<m_live, n_sub>>
    /\ UNCHANGED <<app_vars, local_key, dm_vars, op, n_ops, conn, subs, live, next_id, pool,
                   sentlog, db, sub_id, events, pub, queue>>

\* a relay answers the subscription of the aionostr manager
ProfileRelaySends ==
    /\ m_live
    /\ \E url \in Relays, e \in RelayEvents :
          /\ Matches("meta", local_key, e)
          /\ Cardinality(sentlog) < MaxDeliver
          /\ [id |-> e.id, sub |-> 0, url |-> url] \notin sentlog
          /\ sentlog' = sentlog \cup {[id |-> e.id, sub |-> 0, url |-> url]}
          /\ queue' = Append(queue, e)
    /\ UNCHANGED <<app_vars, local_key, dm_vars, pc, op, ret, n_ops, conn, subs, live, next_id,
                   pool, db, sub_id, events, pub, n_sub, n_close, m_live>>

\* queue.get() returns once the queue holds an event
ProfileGet ==
    /\ pc = "lp_get" /\ queue # << >>
    /\ ret' = Returned(<<Head(queue)>>)
    /\ n_close' = n_close + 1
    /\ m_live' = FALSE /\ queue' = << >>
    /\ pc' = "idle"
    /\ UNCHANGED <<app_vars, local_key, dm_vars, op, n_ops, conn, subs, live, next_id, pool,
                   sentlog, db, sub_id, events, pub, n_sub>>

(***************************************************************************)
(* The specification of the relay manager and its callers.                 *)
(***************************************************************************)
Caller ==
    \/ AddSubscription
    \/ PublishMessage \/ WaitAndPublishMessage
    \/ PublishProfile \/ PublishProfileEvent \/ PublishProfileRetry \/ PublishProfileSync
    \/ GetEvents \/ LoadProfileData \/ TemporarySubscription \/ GetEventsPublish
    \/ GetEventsRetry \/ GetEventsSleep \/ GetEventsLoop \/ GetEventsReturn
    \/ FetchProfileData \/ GetDms \/ FetchSubscribe \/ FetchCollect
    \/ ProfileLoadProfileData \/ ProfileSubscribe \/ ProfileGet

Next == Caller \/ RelaySends \/ ProfileRelaySends \/ ConnectionLost \/ Del

Spec == Init /\ [][Next]_vars

\* The caller's thread runs as long as it can take a step; the relays owe nothing.
FairSpec == Spec /\ WF_vars(Caller)

(***************************************************************************)
(* The 'dm' table under get_dms alone: read without refresh, or fetched    *)
(* from the relays, saved and read.                                        *)
(***************************************************************************)
StoreNext == GetDms \/ FetchSubscribe \/ FetchCollect \/ RelaySends

SpecStore == Init /\ [][StoreNext]_vars

(***************************************************************************)
(* fetch_profile_data alone, with the relays.                              *)
(***************************************************************************)
FetchNext == FetchProfileData \/ FetchSubscribe \/ FetchCollect \/ RelaySends

SpecFetch == Init /\ [][FetchNext]_vars

(***************************************************************************)
(* get_events alone, with the relays and the loss of the connections.      *)
(***************************************************************************)
EventsNext ==
    \/ GetEvents \/ TemporarySubscription \/ GetEventsPublish \/ GetEventsRetry
    \/ GetEventsSleep \/ GetEventsLoop \/ GetEventsReturn
    \/ RelaySends \/ ConnectionLost

SpecEvents == Init /\ [][EventsNext]_vars

(***************************************************************************)
(* The settings screen and the operations that take the local key from     *)
(* the keyring.  Each of them is one operation of the caller.              *)
(***************************************************************************)
mgr_rest == <<pc, op, ret, conn, subs, live, next_id, pool, sentlog, db, sub_id,
              events, pub, n_sub, n_close, queue, m_live>>

KeyStep ==
    /\ pc = "idle" /\ n_ops < MaxOps
    /\ n_ops' = n_ops + 1
    /\ UNCHANGED <<local_key, dm_vars, mgr_rest, ext_vars>>

\* the text field of the private key changes: on_priv_key
OnPrivKey ==
    /\ KeyStep
    /\ \E value \in KeyStrings :
          /\ value # priv_key
          /\ priv_key' = value
          /\ pub_key_text' = get_nostr_pub_key(value).value
          /\ log_records' = log_records \cup get_nostr_pub_key(value).logged
    /\ UNCHANGED <<keyring, key_ret, req_authors>>

\* SettingsScreen.load_priv_key; assigning priv_key calls on_priv_key when
\* the value changes
LoadPrivKey ==
    /\ KeyStep
    /\ IF ~Missing(keyring)
       THEN /\ priv_key' = keyring
            /\ pub_key_text' = get_nostr_pub_key(keyring).value
            /\ log_records' = log_records \cup get_nostr_pub_key(keyring).logged
                  \cup {Record("info", "Private key loaded from keyring.", "")}
       ELSE /\ priv_key' = ""
            /\ pub_key_text' = IF priv_key # "" THEN get_nostr_pub_key("").value
                               ELSE pub_key_text
            /\ log_records' = log_records
                  \cup {Record("warning", "Private key not found in keyring.", "")}
                  \cup (IF priv_key # "" THEN get_nostr_pub_key("").logged ELSE {})
    /\ UNCHANGED <<keyring, key_ret, req_authors>>

\* SettingsScreen.save_priv_key
SavePrivKey ==
    /\ KeyStep
    /\ IF priv_key # ""
       THEN /\ pub_key_text' = get_nostr_pub_key(priv_key).value
            /\ keyring' = priv_key
            /\ log_records' = log_records \cup get_nostr_pub_key(priv_key).logged
                  \cup {IF priv_key # keyring
                        THEN Record("info", "Private key stored in keyring.", "")
                        ELSE Record("info", "Private key unchanged in keyring.", "")}
       ELSE /\ log_records' = log_records
                  \cup {Record("warning", "No private key provided to save.", "")}
            /\ UNCHANGED <<keyring, pub_key_text>>
    /\ UNCHANGED <<priv_key, key_ret, req_authors>>

\* how an operation that loaded the key with result r ended
KeyRet(name, r) ==
    [op |-> name, had_key |-> ~Missing(keyring),
     status |-> IF r.raised THEN "raised" ELSE "returned", exc |-> r.exc]

\* fetch_profile_data and load_profile_data without pub_key_hex: the key of
\* load_user_pub_key is the author of the filter
FetchOwnProfile ==
    /\ KeyStep
    /\ LET r == load_user_pub_key(keyring)
       IN  /\ key_ret' = KeyRet("fetch_profile_data", r)
           /\ log_records' = log_records \cup r.logged
           /\ req_authors' = IF r.raised THEN req_authors
                             ELSE req_authors \cup {r.value}
    /\ UNCHANGED <<keyring, priv_key, pub_key_text>>

\* get_dms: the public key of load_user_priv_key is the author of the filter
GetOwnDms ==
    /\ KeyStep
    /\ LET r == load_user_priv_key(keyring)
       IN  /\ key_ret' = KeyRet("get_dms", r)
           /\ log_records' = log_records \cup r.logged
           /\ req_authors' = IF r.raised THEN req_authors
                             ELSE req_authors \cup {r.value}
    /\ UNCHANGED <<keyring, priv_key, pub_key_text>>

\* update_ui_with_dms, up to the key: without a key it logs and returns
UpdateUiLoadKey ==
    /\ KeyStep
    /\ IF Missing(keyring)
       THEN /\ key_ret' = [op |-> "update_ui_with_dms", had_key |-> FALSE,
                           status |-> "returned", exc |-> ""]
            /\ log_records' = log_records \cup {NotFound}
       ELSE /\ key_ret' = [op |-> "update_ui_with_dms", had_key |-> TRUE,
                           status |-> IF keyring \in NsecStrings THEN "returned"
                                      ELSE "raised",
                           exc |-> IF keyring \in NsecStrings THEN "" ELSE "from_nsec"]
            /\ UNCHANGED log_records
    /\ UNCHANGED <<keyring, priv_key, pub_key_text, req_authors>>

KeyNext ==
    \/ OnPrivKey \/ LoadPrivKey \/ SavePrivKey
    \/ FetchOwnProfile \/ GetOwnDms \/ UpdateUiLoadKey

\* the keyring holds what an earlier run of the settings screen stored
InitKey ==
    /\ local_key = 1
    /\ dm_events = << >> /\ ui = NotRun /\ convs = NotRunConvs /\ inbox = NotRunInbox
    /\ MgrInit
    /\ keyring \in {NoKey} \cup (KeyStrings \ {""})
    /\ priv_key = "" /\ pub_key_text = Placeholder("")
    /\ log_records = {} /\ key_ret = NoKeyRet /\ req_authors = {}
    /\ ExtInit

SpecKey == InitKey /\ [][KeyNext \/ FetchNext]_vars


(***************************************************************************)
(* docs/nip44.py called on its own: pad and unpad of a string, encrypt     *)
(* and decrypt of it under a conversation key and a random salt, and the   *)
(* padding test of one length.                                             *)
(***************************************************************************)
not_nip == <<local_key, dm_vars, mgr_vars, key_vars, screen_vars, db_relays, single_vars>>

Pad ==
    /\ ~padded_data.ran
    /\ padded_data' = pad(cleartext)
    /\ UNCHANGED <<not_nip, cleartext, unpadded_data, secret_key, definitions,
                   encrypted_msg, decrypted_msg, unpadded_len, calculated_padded_len>>

Unpad ==
    /\ padded_data.ran /\ ~padded_data.raised /\ ~unpadded_data.ran
    /\ unpadded_data' = unpad(padded_data.value)
    /\ UNCHANGED <<not_nip, cleartext, padded_data, secret_key, definitions,
                   encrypted_msg, decrypted_msg, unpadded_len, calculated_padded_len>>

\* salt=None: the salt is 32 random bytes
Encrypt ==
    /\ ~encrypted_msg.ran
    /\ \E salt \in Salts :
          encrypted_msg' = IF definitions.which = 1
                           THEN encrypt_first(secret_key, cleartext, salt)
                           ELSE encrypt(secret_key, cleartext, salt, definitions.names)
    /\ UNCHANGED <<not_nip, cleartext, padded_data, unpadded_data, secret_key,
                   definitions, decrypted_msg, unpadded_len, calculated_padded_len>>

Decrypt ==
    /\ encrypted_msg.ran /\ ~encrypted_msg.raised /\ ~decrypted_msg.ran
    /\ decrypted_msg' = IF definitions.which = 1
                         THEN decrypt_first(secret_key, encrypted_msg)
                         ELSE decrypt(secret_key, encrypted_msg, definitions.names)
    /\ UNCHANGED <<not_nip, cleartext, padded_data, unpadded_data, secret_key,
                   definitions, encrypted_msg, unpadded_len, calculated_padded_len>>

\* one turn of the loop of run_padding_tests
RunPaddingTest ==
    /\ calculated_padded_len = 0
    /\ calculated_padded_len' = calc_padding(unpadded_len)
    /\ UNCHANGED <<not_nip, cleartext, padded_data, unpadded_data, secret_key,
                   definitions, encrypted_msg, decrypted_msg, unpadded_len>>

NipNext == Pad \/ Unpad \/ Encrypt \/ Decrypt \/ RunPaddingTest

Unbound == [which |-> 2, names |-> FALSE]

\* short strings under every key and definition; the strings at the size
\* limit; every length of the padding tests
InitNip ==
    /\ local_key = 1
    /\ dm_events = << >> /\ ui = NotRun /\ convs = NotRunConvs /\ inbox = NotRunInbox
    /\ MgrInit /\ conn = "open"
    /\ KeyIdle
    /\ ScreenIdle /\ db_relays = NotSaved /\ SingleIdle
    /\ NipInit
    /\ \/ /\ cleartext \in SmallStrings
          /\ secret_key \in ConvKeys
          /\ definitions \in [which : {1, 2}, names : BOOLEAN]
          /\ unpadded_len = 0
       \/ /\ cleartext \in LongStrings
          /\ secret_key = "key-a"
          /\ definitions \in [which : {1, 2}, names : {TRUE}]
          /\ unpadded_len = 0
       \/ /\ cleartext = << >>
          /\ secret_key = "key-a" /\ definitions = Unbound
          /\ unpadded_len \in 0..MAX_PLAINTEXT_SIZE

SpecNip == InitNip /\ [][NipNext]_vars


(***************************************************************************)
(* The relay screen and the singleton.  The screen starts with an empty    *)
(* list (its load_relays_from_db is commented out); the database has the   *)
(* list of an earlier run or none.                                         *)
(***************************************************************************)
not_screen == <<local_key, dm_vars, mgr_vars, key_vars, nip_vars, single_vars>>

\* the step changes RelayScreen.relays or the stored list
Changed == relays' # relays \/ db_relays' # db_relays

\* add_relay: the dialog with the empty text field
AddRelay ==
    /\ dialog' = [kind |-> "add", open |-> TRUE, url |-> Url("", "", FALSE)]
    /\ UNCHANGED <<not_screen, relays, db_relays, error_label>>
    /\ relay_ret' = ScreenRet("add_relay", TRUE, FALSE, Changed)

\* SAVE of the add dialog: save_new_relay_url(self.dialog.content_cls.text)
SaveNewRelayUrl ==
    /\ dialog.kind = "add" /\ dialog.open
    /\ \E new_url \in TypedUrls :
          IF is_valid_relay_url(new_url)
          THEN /\ Len(relays) < MaxRelays
               /\ relays' = Append(relays, new_url)
               /\ db_relays' = Saved(relays')
               /\ dialog' = [dialog EXCEPT !.open = FALSE]
               /\ UNCHANGED error_label
               /\ relay_ret' = ScreenRet("save_new_relay_url", TRUE, FALSE, Changed)
          ELSE IF error_label.exists
          THEN /\ error_label' = [error_label EXCEPT !.text = "must start with wss://"]
               /\ dialog' = [dialog EXCEPT !.open = FALSE]
               /\ UNCHANGED <<relays, db_relays>>
               /\ relay_ret' = ScreenRet("save_new_relay_url", FALSE, FALSE, Changed)
          ELSE \* AttributeError: the screen has no error_label yet
               /\ UNCHANGED <<relays, db_relays, error_label, dialog>>
               /\ relay_ret' = ScreenRet("save_new_relay_url", FALSE, TRUE, Changed)
    /\ UNCHANGED not_screen

\* open_edit_dialog for an item of the list
OpenEditDialog ==
    /\ \E relay_url \in Elems(relays) :
          dialog' = [kind |-> "edit", open |-> TRUE, url |-> relay_url]
    /\ error_label' = [exists |-> TRUE, text |-> ""]
    /\ UNCHANGED <<not_screen, relays, db_relays>>
    /\ relay_ret' = ScreenRet("open_edit_dialog", TRUE, FALSE, Changed)

\* SAVE of the edit dialog: on_save_button_release, save_relay_url, dismiss
OnSaveButtonRelease ==
    /\ dialog.kind = "edit" /\ dialog.open
    /\ \E new_url \in TypedUrls :
          LET old_url == dialog.url
          IN  IF is_valid_relay_url(new_url)
              THEN /\ IF old_url \in Elems(relays)
                      THEN /\ relays' = [relays EXCEPT ![IndexOf(relays, old_url)] = new_url]
                           /\ db_relays' = Saved(relays')
                      ELSE UNCHANGED <<relays, db_relays>>
                   /\ UNCHANGED error_label
                   /\ relay_ret' = ScreenRet("save_relay_url", TRUE, FALSE, Changed)
              ELSE /\ error_label' = [error_label EXCEPT !.text = "must start with wss://"]
                   /\ UNCHANGED <<relays, db_relays>>
                   /\ relay_ret' = ScreenRet("save_relay_url", FALSE, FALSE, Changed)
    /\ dialog' = [dialog EXCEPT !.open = FALSE]
    /\ UNCHANGED not_screen

\* DELETE of the edit dialog
DeleteRelayUrl ==
    /\ dialog.kind = "edit" /\ dialog.open
    /\ IF dialog.url \in Elems(relays)
       THEN /\ relays' = Remove(relays, dialog.url)
            /\ db_relays' = Saved(relays')
       ELSE UNCHANGED <<relays, db_relays>>
    /\ dialog' = [dialog EXCEPT !.open = FALSE]
    /\ relay_ret' = ScreenRet("delete_relay_url", TRUE, FALSE, Changed)
    /\ UNCHANGED <<not_screen, error_label>>

LoadDefaultRelays ==
    /\ Len(load_default_relays(relays, 1)) <= MaxRelays
    /\ relays' = load_default_relays(relays, 1)
    /\ db_relays' = Saved(relays')
    /\ relay_ret' = ScreenRet("load_default_relays", TRUE, FALSE, Changed)
    /\ UNCHANGED <<not_screen, error_label, dialog>>

ScreenNext ==
    \/ AddRelay \/ SaveNewRelayUrl \/ OpenEditDialog \/ OnSaveButtonRelease
    \/ DeleteRelayUrl \/ LoadDefaultRelays

not_single == <<local_key, dm_vars, mgr_vars, key_vars, nip_vars, screen_vars, db_relays>>

\* NostrRelayManager(): __init__ registers the object, then init_manager runs
Construct ==
    /\ \E fault \in InitFaults :
          IF instance # 0
          THEN /\ inst_ret' = InstRet("__init__", "raised", 0, TRUE)
               /\ UNCHANGED <<instance, managers>>
          ELSE /\ managers' = Append(managers, init_manager(fault))
               /\ instance' = Len(managers')
               /\ inst_ret' = InstRet("__init__",
                                      IF init_manager(fault).ready THEN "returned"
                                      ELSE "raised",
                                      instance', FALSE)
    /\ UNCHANGED not_single

\* NostrRelayManager.get_instance()
GetInstance ==
    /\ \E fault \in InitFaults :
          IF instance # 0
          THEN /\ inst_ret' = InstRet("get_instance", "returned", instance, TRUE)
               /\ UNCHANGED <<instance, managers>>
          ELSE /\ managers' = Append(managers, init_manager(fault))
               /\ instance' = Len(managers')
               /\ inst_ret' = InstRet("get_instance",
                                      IF init_manager(fault).ready THEN "returned"
                                      ELSE "raised",
                                      instance', FALSE)
    /\ UNCHANGED not_single

SingleNext == Construct \/ GetInstance

InitScreen ==
    /\ local_key = 1
    /\ dm_events = << >> /\ ui = NotRun /\ convs = NotRunConvs /\ inbox = NotRunInbox
    /\ MgrInit /\ conn = "open"
    /\ KeyIdle /\ NipIdle
    /\ ScreenIdle
    /\ db_relays \in {NotSaved, Saved(DEFAULT_RELAYS), Saved(<< >>)}
    /\ SingleIdle

SpecScreen == InitScreen /\ [][ScreenNext]_vars

(***************************************************************************)
(* The singleton from the start of the process: no manager has been        *)
(* constructed, and the fetches are calls on the registered instance.      *)
(***************************************************************************)
InitSingle ==
    /\ local_key = 1
    /\ dm_events = << >> /\ ui = NotRun /\ convs = NotRunConvs /\ inbox = NotRunInbox
    /\ MgrInit /\ conn = "open"
    /\ KeyIdle /\ NipIdle
    /\ ScreenIdle
    /\ db_relays \in {NotSaved, Saved(DEFAULT_RELAYS), Saved(<< >>)}
    /\ managers = << >> /\ instance = 0 /\ inst_ret = NoInstRet

SingleFetch == instance # 0 /\ FetchNext

SpecSingle == InitSingle /\ [][SingleNext \/ SingleFetch]_vars


(***************************************************************************)
(* get_dms of nostrmail/utils.py on the events get_events returned, and    *)
(* the decryption of update_inbox (nostrmail/callbacks.py) on its rows.    *)
(***************************************************************************)
RECURSIVE nostrmail_get_dms_loop(_, _, _, _)
nostrmail_get_dms_loop(pub_key_hex, dm_evs, i, dms) ==
    IF i > Len(dm_evs) THEN [raised |-> FALSE, dms |-> dms]
    ELSE LET e == dm_evs[i]
         IN  IF ~e.sig
             THEN nostrmail_get_dms_loop(pub_key_hex, dm_evs, i + 1,
                      Append(dms, [valid |-> FALSE, pos |-> i, event_id |-> e.id,
                                   time |-> 0, author |-> 0, p |-> 0]))
             ELSE IF ~DictOk(e.tags) \/ ~HasKey(e.tags, "p")
             THEN [raised |-> TRUE, dms |-> dms]              \* ValueError, KeyError
             ELSE IF Lookup(e.tags, "p") # pub_key_hex /\ e.pubkey # pub_key_hex
             THEN [raised |-> TRUE, dms |-> dms]              \* AssertionError
             ELSE nostrmail_get_dms_loop(pub_key_hex, dm_evs, i + 1,
                      Append(dms, [valid |-> TRUE, pos |-> i, event_id |-> e.id,
                                   time |-> e.created_at, author |-> e.pubkey,
                                   p |-> Lookup(e.tags, "p")]))

nostrmail_get_dms(pub_key_hex, dm_evs) ==
    nostrmail_get_dms_loop(pub_key_hex, dm_evs, 1, << >>)

\* get_convs: the conversation tuple of every row
get_convs(dms) == [i \in 1..Len(dms) |-> ConvKey(dms[i].author, dms[i].p)]

\* the counterpart update_inbox passes to decrypt_message
inbox_counterpart(pub_key, author, p) ==
    IF author = pub_key THEN p ELSE author

\* the decrypt_message calls of update_inbox for the valid rows, up to the
\* first call that raises
RECURSIVE inbox_decrypt(_, _, _, _, _)
inbox_decrypt(pub_key, dm_evs, rows, i, log) ==
    IF i > Len(rows) THEN [raised |-> FALSE, log |-> log]
    ELSE IF ~rows[i].valid THEN inbox_decrypt(pub_key, dm_evs, rows, i + 1, log)
    ELSE LET msg == rows[i]
             call == Call(msg.pos, dm_evs[msg.pos],
                          inbox_counterpart(pub_key, msg.author, msg.p), pub_key)
         IN  IF ~call.ok THEN [raised |-> TRUE, log |-> Append(log, call)]
             ELSE inbox_decrypt(pub_key, dm_evs, rows, i + 1, Append(log, call))

(***************************************************************************)
(* The decryptors applied to a batch of events, for every local key.       *)
(***************************************************************************)
InitDm ==
    /\ local_key \in Keys
    /\ dm_events \in SeqsUpTo(DmEvents, MaxBatch)
    /\ ui = NotRun /\ convs = NotRunConvs /\ inbox = NotRunInbox
    /\ MgrInit
    /\ AppInit

UpdateUiWithDms ==
    /\ ~ui.ran
    /\ ui' = [update_ui_with_dms(local_key, dm_events) EXCEPT !.ran = TRUE]
    /\ UNCHANGED <<local_key, dm_events, convs, inbox, mgr_vars, app_vars>>

DecryptDmEvents ==
    /\ ~convs.ran
    /\ convs' = [ran |-> TRUE] @@ decrypt_dm_events(dm_events, local_key)
    /\ UNCHANGED <<local_key, dm_events, ui, inbox, mgr_vars, app_vars>>

UpdateInbox ==
    /\ ~inbox.ran
    /\ LET got == nostrmail_get_dms(local_key, dm_events)
           dec == inbox_decrypt(local_key, dm_events, got.dms, 1, << >>)
       IN  inbox' = IF got.raised
                    THEN [ran |-> TRUE, raised |-> TRUE, dms |-> got.dms, log |-> << >>]
                    ELSE [ran |-> TRUE, raised |-> dec.raised, dms |-> got.dms,
                          log |-> dec.log]
    /\ UNCHANGED <<local_key, dm_events, ui, convs, mgr_vars, app_vars>>

NextDm == UpdateUiWithDms \/ DecryptDmEvents \/ UpdateInbox

SpecDm == InitDm /\ [][NextDm]_vars


(***************************************************************************)
(* The claims.                                                             *)
(***************************************************************************)
\* the operation named by op has ended
Finished == pc = "idle" /\ ret.status # "none"

FetchOps == {"get_events", "load_profile_data", "fetch_profile_data", "get_dms",
             "profile.load_profile_data"}

\* C1: when a fetch operation has returned or raised, every subscription it
\* opened has been closed exactly once.
C1_EverySubscriptionClosedOnce ==
    (Finished /\ op.name \in FetchOps /\ n_sub > 0) => n_close = n_sub

\* C2: a publish call that has ended has handed the message to the transport
\* or has raised the transport's error to its caller.
C2_PublishSendsOrRaises ==
    (Finished /\ op.name \in {"publish_message", "wait_and_publish_message"})
        => (pub.sent \/ ret.status = "raised")

\* C3: a publish makes at most one reopen-and-resend round, makes exactly one
\* when it found the connection closed, and raises when the round did not
\* send the message either.
C3_ReopenAndRetryOnce ==
    /\ pub.retries <= 1
    /\ (Finished /\ op.name \in {"get_events", "load_profile_data", "publish_profile"}
          /\ pub.closed_seen) => pub.retries = 1
    /\ (Finished /\ op.name \in {"get_events", "load_profile_data", "publish_profile"}
          /\ pub.retries = 1 /\ ~pub.sent) => ret.status = "raised"

\* C4: every fetch operation that was started returns to its caller, whatever
\* the relays do.
C4_EveryFetchReturns ==
    (pc # "idle" /\ op.name \in FetchOps) ~> (pc = "idle")

\* C5: no event whose signature does not verify is among the messages that
\* get_dms returns grouped by conversation.
C5_NoForgedEventInConversations ==
    (Finished /\ op.name = "get_dms" /\ ret.status = "returned")
        => \A d \in ret.dms : \A e \in RelayEvents : e.id = d.event_id => e.sig

\* C6: the decryptors raise nothing, and every dm handed to the renderer has a
\* 'decrypted' value.
C6_DecryptorAlwaysRenders ==
    /\ ui.ran => (~ui.raised /\ \A i \in 1..Len(ui.dms) : ui.dms[i].has_decrypted)
    /\ convs.ran => ~convs.raised

\* the decrypt_message calls of log for the event at place i of the batch
CallsAt(log, i) == SelectSeq(log, LAMBDA c : c.pos = i)

\* the other candidate counterpart of event e
Alternate(e, counterpart) ==
    IF HasKey(e.tags, "p") /\ counterpart = e.pubkey THEN Lookup(e.tags, "p")
    ELSE e.pubkey

RetriesOnce(log) ==
    \A i \in 1..Len(dm_events) :
        LET calls == CallsAt(log, i)
        IN  /\ Len(calls) <= 2
            /\ (Len(calls) >= 1 /\ ~calls[1].ok)
                  => /\ Len(calls) = 2
                     /\ calls[2].counterpart = Alternate(dm_events[i], calls[1].counterpart)

\* C7: a decryptor whose first decrypt_message call for an event fails makes
\* exactly one more call for it, with the alternate counterpart; when that one
\* succeeds the result is the decrypted text; no event gets a third call.
C7_RetryOnceWithAlternate ==
    /\ ui.ran => /\ RetriesOnce(ui.log)
                 /\ \A k \in 1..Len(ui.dms) :
                       LET calls == CallsAt(ui.log, k)
                       IN  (Len(calls) = 2 /\ calls[2].ok)
                              => ui.dms[k].decrypted = Text(dm_events[k].content.text)
    /\ convs.ran => RetriesOnce(convs.log)

\* the counterpart the rule gives: the 'p' recipient for the local user's own
\* message, the author otherwise
RuleCounterpart(e) ==
    IF e.pubkey = local_key THEN Lookup(e.tags, "p") ELSE e.pubkey

FirstCallsFollowRule(log) ==
    \A i \in 1..Len(dm_events) :
        LET calls == CallsAt(log, i)
        IN  (Len(calls) >= 1 /\ HasKey(dm_events[i].tags, "p"))
               => calls[1].counterpart = RuleCounterpart(dm_events[i])

\* C8 as claimed: in every decryptor the first decrypt_message call for an
\* event passes the 'p' recipient when the author is the local key and the
\* author otherwise.
C8_FirstCounterpartByRule ==
    /\ ui.ran => FirstCallsFollowRule(ui.log)
    /\ convs.ran => FirstCallsFollowRule(convs.log)
    /\ inbox.ran => FirstCallsFollowRule(inbox.log)

\* C8 as amended: decrypt_dm_events and update_inbox follow the rule;
\* update_ui_with_dms passes the 'p' recipient first whoever the author is,
\* and the author first only for an event without a 'p' tag.
C8_FirstCounterpartPerDecryptor ==
    /\ convs.ran => FirstCallsFollowRule(convs.log)
    /\ inbox.ran => FirstCallsFollowRule(inbox.log)
    /\ ui.ran => \A i \in 1..Len(dm_events) :
                    LET calls == CallsAt(ui.log, i)
                        e == dm_events[i]
                    IN  Len(calls) >= 1
                           => calls[1].counterpart =
                                 IF HasKey(e.tags, "p") THEN Lookup(e.tags, "p")
                                 ELSE e.pubkey

\* a message addressed to the local user went through the three decryptors,
\* and update_ui_with_dms needed its second call for it
C8_Witness ==
    /\ ui.ran /\ convs.ran /\ inbox.ran
    /\ \E i \in 1..Len(dm_events) :
          /\ dm_events[i].pubkey # local_key
          /\ Len(CallsAt(ui.log, i)) = 2
          /\ Len(CallsAt(convs.log, i)) = 1
          /\ Len(CallsAt(inbox.log, i)) = 1

\* C9: get_events yields no event id twice within one fetch.
C9_NoEventYieldedTwice ==
    op.name \in {"get_events", "load_profile_data"}
        => \A i, j \in 1..Len(events) : i # j => events[i].id # events[j].id

\* C10: a profile fetch returns, of the candidates that parsed, the one with
\* the greatest created_at.
C10_LatestCreatedAtWins ==
    /\ (Finished /\ op.name = "fetch_profile_data" /\ op.kind = "profile"
          /\ ret.status = "returned")
          => LET candidates == events_by_relay(events, 1)
             IN  \A k \in 1..Len(candidates) :
                    candidates[k].timestamp <= ret.value[1].created_at
    /\ (Finished /\ op.name = "load_profile_data" /\ ret.status = "returned"
          /\ ret.value # << >>)
          => \A k \in 1..Len(events) : events[k].created_at <= ret.value[1].created_at

\* fetch_profile_data(kind='profile') has ended; events holds the event
\* messages it took from the pool
FetchedProfile == Finished /\ op.name = "fetch_profile_data" /\ op.kind = "profile"

\* load_profile_data of the manager has ended; events holds what get_events
\* had parsed, and pool what it had not read when it stopped
LoadedProfile == Finished /\ op.name = "load_profile_data"

Parses(e) == e.kind = KindMeta /\ e.content.json

\* the event of the relays with this id
EventOf(id) == CHOOSE e \in RelayEvents : e.id = id

\* C11: a profile fetch that got no metadata that parses (no event at all, or
\* only events that do not parse) returns the absent result and raises nothing.
C11_AbsentWhenNothingParses ==
    /\ (FetchedProfile /\ \A k \in 1..Len(events) : ~Parses(events[k].event))
          => (ret.status = "returned" /\ ret.value = << >>)
    /\ (LoadedProfile /\ events = << >> /\ \A k \in 1..Len(pool) : ~Parses(pool[k].event))
          => (ret.status = "returned" /\ ret.value = << >>)

\* C12: a profile fetch that got metadata that does not parse from one relay
\* and metadata that parses from another returns metadata that parses and
\* raises nothing.
C12_ParseFailureDropsOneRelay ==
    /\ (FetchedProfile
          /\ \E b, g \in 1..Len(events) :
                /\ events[b].url # events[g].url
                /\ ~Parses(events[b].event) /\ Parses(events[g].event))
          => (ret.status = "returned" /\ ret.value # << >> /\ Parses(ret.value[1]))
    /\ (LoadedProfile
          /\ \E b, g \in {m \in sentlog : m.sub = sub_id} :
                /\ b.url # g.url
                /\ ~Parses(EventOf(b.id)) /\ Parses(EventOf(g.id)))
          => (ret.status = "returned" /\ ret.value # << >> /\ Parses(ret.value[1]))

\* get_dms(refresh=True) has ended; events holds the event messages it
\* fetched and db the table after it saved their events
Merged == Finished /\ op.name = "get_dms" /\ op.refresh

\* the events get_dms saved, in the order it saved them
FetchedEvents == [i \in 1..Len(events) |-> events[i].event]

\* C13: saving the same events into the table once more leaves the table as
\* it is after the first save, and the table holds no id twice.
C13_MergeTwiceIsMergeOnce ==
    Merged => /\ save_events_to_db(db, FetchedEvents) = db
              /\ \A i, j \in 1..Len(db) : db[i].id = db[j].id => i = j

\* two event messages were saved into a table
C13_Witness == Merged /\ Len(events) >= 2 /\ Len(db) >= 1

DmOf(d) == CHOOSE e \in DmEvents : e.id = d.event_id

\* a was sent by the recipient of b to the author of b
Opposite(a_author, a_p, b_author, b_p) == a_author = b_p /\ a_p = b_author

\* C15: a message from A to B and a message from B to A get the same
\* conversation key, in decrypt_dm_events and in the rows of update_inbox.
C15_ConversationKeySymmetric ==
    /\ convs.ran =>
          \A d1, d2 \in convs.dms :
              Opposite(DmOf(d1).pubkey, Lookup(DmOf(d1).tags, "p"),
                       DmOf(d2).pubkey, Lookup(DmOf(d2).tags, "p"))
                 => d1.conv_key = d2.conv_key
    /\ (inbox.ran /\ ~inbox.raised) =>
          \A i, j \in 1..Len(inbox.dms) :
              (inbox.dms[i].valid /\ inbox.dms[j].valid
                 /\ Opposite(inbox.dms[i].author, inbox.dms[i].p,
                             inbox.dms[j].author, inbox.dms[j].p))
                 => get_convs(inbox.dms)[i] = get_convs(inbox.dms)[j]

\* a message and its answer went through decrypt_dm_events and update_inbox
C15_Witness ==
    /\ convs.ran /\ ~convs.raised /\ inbox.ran /\ ~inbox.raised
    /\ \E d1, d2 \in convs.dms :
          /\ d1.from_pubkey # d2.from_pubkey
          /\ Opposite(DmOf(d1).pubkey, Lookup(DmOf(d1).tags, "p"),
                      DmOf(d2).pubkey, Lookup(DmOf(d2).tags, "p"))
    /\ \E i, j \in 1..Len(inbox.dms) :
          /\ inbox.dms[i].valid /\ inbox.dms[j].valid
          /\ inbox.dms[i].author # inbox.dms[j].author
          /\ Opposite(inbox.dms[i].author, inbox.dms[i].p,
                      inbox.dms[j].author, inbox.dms[j].p)

\* C16: in every conversation of decrypt_dm_events the messages are in the
\* order of their timestamps, and messages of the same timestamp in the order
\* of their event ids.
C16_BucketOrderedByTimeThenId ==
    (convs.ran /\ ~convs.raised) =>
        \A d1, d2 \in convs.dms :
            (d1.conv_key = d2.conv_key /\ d1.at < d2.at)
               => \/ d1.time < d2.time
                  \/ d1.time = d2.time /\ d1.event_id < d2.event_id

\* decrypt_dm_events can decrypt e for the local key
Decryptable(e) ==
    /\ DictOk(e.tags) /\ HasKey(e.tags, "p")
    /\ ~DecryptRaises(local_key, e.content,
                      dm_counterpart(local_key, e.pubkey, Lookup(e.tags, "p")))

\* get_dms of nostrmail has a row to make of e for the local key
Listable(e) ==
    ~e.sig \/ (/\ DictOk(e.tags) /\ HasKey(e.tags, "p")
               /\ (Lookup(e.tags, "p") = local_key \/ e.pubkey = local_key))

\* C17: whatever else is in the batch, decrypt_dm_events returns an entry for
\* every event it can decrypt, and get_dms of nostrmail a row for every event
\* it can list: an event that fails does not take the others with it.
C17_OneFailureDoesNotAbort ==
    /\ convs.ran =>
          \A i \in 1..Len(dm_events) :
              Decryptable(dm_events[i])
                 => /\ ~convs.raised
                    /\ \E d \in convs.dms :
                          /\ d.conv_key = ConvKey(dm_events[i].pubkey,
                                                  Lookup(dm_events[i].tags, "p"))
                          /\ d.iv = get_encryption_iv(dm_events[i].content)
    /\ inbox.ran =>
          \A i \in 1..Len(dm_events) :
              Listable(dm_events[i])
                 => \E k \in 1..Len(inbox.dms) : inbox.dms[k].pos = i

\* C18: a subscription goes forward only: its REQ is out only while it is
\* registered, get_events reads the pool only once the REQ was handed to the
\* transport, the close comes only when the reading has ended, and a closed
\* subscription stays closed.
C18_SubscriptionMovesForward ==
    /\ live \subseteq SubIds
    /\ pc \in {"ge_sleep", "ge_drain"} => sub_id \in live
    /\ pc \in {"ge_publish", "ge_retry", "ge_sleep", "ge_drain"} => sub_id \in SubIds
    /\ (Finished /\ op.name \in {"get_events", "load_profile_data"})
          => sub_id \notin SubIds \cup live
    /\ (Finished /\ op.name = "add_subscription") => sub_id \notin SubIds

\* C19: the close that the teardown of the manager issues after the fetches
\* have closed their subscriptions raises no error.
C19_SecondCloseIsNoOp ==
    op.name = "__del__" => ret.status # "raised"

\* C20: an operation on a closed subscription fails with the error
\* "subscription inactive" and registers nothing.
C20_ClosedSubscriptionRejects ==
    (Finished /\ op.name = "add_subscription")
        => (ret = Raised("SubscriptionInactive") /\ sub_id \notin SubIds)

\* the candidate that fetch_profile_data took as the latest
Winner ==
    LET c == sorted_by_timestamp(events_by_relay(events, 1)) IN c[Len(c)].event

C22_NoKeyRaisesEmptyReturns ==
    /\ (key_ret.status # "none" /\ ~key_ret.had_key) => key_ret.status = "raised"
    /\ \A a \in req_authors : a.is_key
    /\ (Finished /\ op.name = "fetch_profile_data" /\ events = << >>)
          => ret.status = "returned"

\* C23: no log record holds a private key.
C23_NoKeyInLog ==
    \A r \in log_records : r.arg \notin KeyStrings \ {""}

\* C24: decrypt(encrypt(m, k), k) = m for every message m within the size
\* bound and every key k: encrypt returns a payload for such a message, and
\* decrypt of that payload under the same key passes the MAC check and
\* returns m.
C24_RoundTrip ==
    /\ (encrypted_msg.ran /\ Len(utf8_to_bytes(cleartext)) \in 1..65407)
          => ~encrypted_msg.raised
    /\ decrypted_msg.ran => (~decrypted_msg.raised /\ decrypted_msg.value = cleartext)

\* C25: unpad(pad(s)) = s for every string s of 1 to 65407 bytes of UTF-8;
\* calc_padding(n) is at least n and at least 32 for every such n; pad
\* rejects the length 0 and every length from 65408 on, and no other.
C25_PadUnpadInverse ==
    /\ (calculated_padded_len # 0 /\ unpadded_len \in 1..65407)
          => (calculated_padded_len >= unpadded_len /\ calculated_padded_len >= 32)
    /\ padded_data.ran
          => (padded_data.raised <=> (padded_data.length = 0 \/ padded_data.length >= 65408))
    /\ unpadded_data.ran
          => (~unpadded_data.raised /\ unpadded_data.value = cleartext)

\* a string of 65407 bytes went through pad and unpad
C25_Witness ==
    /\ unpadded_data.ran /\ unpadded_data.value = cleartext
    /\ padded_data.length = 65407

\* C26: the conversations decrypt_dm_events returns hold exactly one message
\* for every distinct event id of the batch: an event that comes twice gives
\* one entry, and no event's entry is lost to the entry of another event.
C26_OneEntryPerEventId ==
    (convs.ran /\ ~convs.raised) =>
        /\ \A i \in 1..Len(dm_events) :
              \E d \in convs.dms : d.event_id = dm_events[i].id
        /\ \A d1, d2 \in convs.dms : d1.event_id = d2.event_id => d1 = d2

\* C27: every event a fetch returns was delivered for the subscription of
\* that fetch and matches its filter: no event that arrived for another
\* subscription of the shared manager is in the result.
C27_OnlyOwnSubscription ==
    /\ (Finished /\ ret.status = "returned"
            /\ op.name \in {"fetch_profile_data", "get_dms"}) =>
          \A k \in 1..Len(events) :
              /\ events[k].subscription_id = sub_id
              /\ Matches(op.kind, local_key, events[k].event)
    /\ (Finished /\ ret.status = "returned"
            /\ op.name \in {"get_events", "load_profile_data"}) =>
          \A k \in 1..Len(events) :
              /\ \E m \in sentlog : m.id = events[k].id /\ m.sub = sub_id
              /\ Matches(op.kind, local_key, events[k])

\* C28: at most one fully initialised NostrRelayManager exists; the object
\* registered as the singleton is fully initialised, also after a
\* construction that failed in init_manager; get_instance returns that
\* object; a direct construction when an instance exists raises.
C28_OneInitialisedSingleton ==
    /\ instance # 0 => managers[instance].ready
    /\ Cardinality({i \in 1..Len(managers) : managers[i].ready}) <= 1
    /\ (inst_ret.call = "get_instance" /\ inst_ret.status = "returned")
          => (inst_ret.obj = instance /\ managers[inst_ret.obj].ready)
    /\ (inst_ret.call = "__init__" /\ inst_ret.had_instance) => inst_ret.status = "raised"

\* C29: adding or editing a relay with a URL that is_valid_relay_url rejects
\* leaves RelayScreen.relays and the stored list as they were and raises
\* nothing; every URL of the two lists is a valid one.
C29_InvalidUrlChangesNothing ==
    /\ (relay_ret.op \in {"save_new_relay_url", "save_relay_url"} /\ ~relay_ret.valid)
          => (~relay_ret.changed /\ ~relay_ret.raised)
    /\ \A url \in Elems(relays) \cup Elems(db_relays.value) : is_valid_relay_url(url)

\* C30: a call of get_events with a kind it does not support raises
\* NotImplementedError, and the step of the call leaves the subscriptions,
\* the subscriptions the relays know, the connections and the traffic with
\* the relays as they were: nothing is registered and nothing is published.
C30_UnsupportedKindChangesNothing ==
    [][(n_ops' = n_ops + 1 /\ op'.name = "get_events"
            /\ op'.kind \notin {"text", "meta", "dm"})
          => /\ ret'.status = "raised" /\ ret'.exc = "NotImplementedError"
             /\ pc' = "idle"
             /\ subs' = subs /\ live' = live /\ conn' = conn
             /\ pool' = pool /\ sentlog' = sentlog
             /\ n_sub' = 0 /\ pub'.calls = 0]_vars

\* get_events was called with a kind it does not support, after a call that
\* had traffic with the relays
C30_Witness ==
    /\ Finished /\ op.name = "get_events" /\ op.kind \notin {"text", "meta", "dm"}
    /\ ret.exc = "NotImplementedError"
    /\ n_ops = 2 /\ sentlog # {}

=============================================================================
